---------------------------- MODULE Spec2Model ----------------------------
(***************************************************************************)
(* The transaction execution engine of the VM simulator:                   *)
(*   vm/src/tx_execution/exec_general_tx.rs       default_execution,       *)
(*                                                deploy_contract          *)
(*   vm/src/tx_execution/exec_contract_endpoint.rs  dispatch, panic        *)
(*                                                translation              *)
(*   vm/src/tx_mock/tx_context.rs                 TxContext                *)
(*   elrond-wasm-debug/src/ext_mock.rs            TxOutput, contract API   *)
(* Option values are sequences: <<>> is None, <<x>> is Some(x).            *)
(***************************************************************************)
EXTENDS Integers, Sequences, FiniteSets, TLC

VARIABLES
    accounts,       \* the committed Account Store (BlockchainState.accounts)
    tx_cache,       \* the TxCache working set of the transaction being executed
    stack,          \* TxContextStack: the active TxContext frames, top last
    static_vars,    \* depth of StaticVarStack
    pc,             \* "idle" | "running" | "returned" | "aborted"
    call,           \* the top-level call in progress (locals of the entry point)
    ret,            \* what the entry point returned to its caller
    last_end,       \* history: how the last dispatch ended and what it returned
    pushes,         \* history: contexts pushed on the Context Stack so far
    saved_scratch,  \* history: per frame, the scratch of the frame below at push
    steps,          \* API calls made by contract code in this transaction
    ext_pc,         \* a context used through its API: "idle" | "running" |
                    \* "ended" | "reclaimed" | "aborted"
    ext_ctx,        \* that context: its kind, arguments and diagnostic flag
    ext_shared,     \* what its shared handle points to (TxOutput, or TxCache)
    ext_strong,     \* the strong count of that shared handle
    ext_last,       \* history: the last API call, its inputs and its outcome
    ext_ret,        \* what the dispatch on that context returned
    ext_steps,      \* API calls made on that context
    rc              \* the activations of execute_tx_context, line by line, and
                    \* the strong counts of their Rc<TxContext> and of the
                    \* Rc<TxCache> of the transaction

ext_vars == <<ext_pc, ext_ctx, ext_shared, ext_strong, ext_last, ext_ret, ext_steps>>

vars == <<accounts, tx_cache, stack, static_vars, pc, call, ret, last_end,
         pushes, saved_scratch, steps, ext_pc, ext_ctx, ext_shared, ext_strong,
         ext_last, ext_ret, ext_steps, rc>>

----------------------------------------------------------------------------
(* Bounds of the model *)

\* longest list of secondary-token transfers in an input
MaxEsdt == 2
\* most API calls contract code makes in one transaction
MaxSteps == 3
\* deepest nesting of dispatches
MaxDepth == 2

----------------------------------------------------------------------------
(* Addresses *)

ADDRESS_LENGTH == 32
SC_ADDRESS_NUM_LEADING_ZEROS == 8

Alice == [sc |-> FALSE, id |-> 1]
ScA == [sc |-> TRUE, id |-> 2]
ScB == [sc |-> TRUE, id |-> 3]

\* VMAddress::zero()
VMAddress_zero == [sc |-> TRUE, id |-> 0]

\* VMAddress::is_smart_contract_address: the address-shape predicate
is_smart_contract_address(a) == a.sc

\* VMAddress::to_vec: the 32 bytes of the address
to_vec(a) ==
    [i \in 1..ADDRESS_LENGTH |->
        IF i <= SC_ADDRESS_NUM_LEADING_ZEROS THEN (IF a.sc THEN 0 ELSE 1)
        ELSE IF i = ADDRESS_LENGTH THEN a.id % 256
        ELSE IF i = ADDRESS_LENGTH - 1 THEN a.id \div 256
        ELSE 0]

\* mutant: the address is derived from the creator alone
get_new_address_ignores_nonce(creator, nonce) == [sc |-> TRUE, id |-> 16 * creator.id + 4]

\* TxCache::get_new_address: derived from the creator and its current nonce
get_new_address(creator, nonce) == [sc |-> TRUE, id |-> 16 * creator.id + nonce + 4]

\* BigUint::to_bytes_be
RECURSIVE to_bytes_be(_)
to_bytes_be(n) == IF n < 256 THEN <<n>> ELSE to_bytes_be(n \div 256) \o <<n % 256>>

----------------------------------------------------------------------------
(* Accounts and the cache *)

TokenKeys == {<<"T1", 0>>, <<"T2", 0>>}

NoEsdt == [k \in TokenKeys |-> 0]

\* the AccountData literal of create_new_contract
new_contract_account(new_address, contract_path, contract_owner) ==
    [address |-> new_address,
     nonce |-> 0,
     egld_balance |-> 0,
     storage |-> <<>>,
     esdt |-> NoEsdt,
     username |-> <<>>,
     contract_path |-> <<contract_path>>,
     contract_owner |-> <<contract_owner>>,
     developer_rewards |-> 0]

\* BlockchainState::account_exists, on the committed store
account_exists(a) == a \in DOMAIN accounts

\* TxCache::with_account: the cached override, else the committed account
with_account(cache, a) == IF a \in DOMAIN cache THEN cache[a] ELSE accounts[a]

\* TxCache::with_account_mut / insert_account: the write lands in the cache
with_account_mut(cache, a, acct) ==
    [x \in DOMAIN cache \cup {a} |-> IF x = a THEN acct ELSE cache[x]]

\* TxCache::insert_account
insert_account(cache, acct) == with_account_mut(cache, acct.address, acct)

\* TxPanic
TxPanic(status, message) == [status |-> status, message |-> message]

\* TxPanic::user_error
user_error(message) == TxPanic(4, message)

\* TxPanic::vm_error
vm_error(message) == TxPanic(10, message)

Ok(cache) == [ok |-> TRUE, cache |-> cache, err |-> TxPanic(0, "")]
Err(cache, panic) == [ok |-> FALSE, cache |-> cache, err |-> panic]

\* TxCache::subtract_egld_balance
subtract_egld_balance(cache, a, value) ==
    LET acct == with_account(cache, a)
    IN  IF value > acct.egld_balance
        THEN Err(cache, vm_error("failed transfer (insufficient funds)"))
        ELSE Ok(with_account_mut(cache, a,
                         [acct EXCEPT !.egld_balance = acct.egld_balance - value]))

\* mutant: the credit is computed from the committed account, not the cached one
increase_egld_balance_from_store(cache, a, value) ==
    LET acct == IF a \in DOMAIN accounts THEN accounts[a] ELSE with_account(cache, a)
    IN  with_account_mut(cache, a, [acct EXCEPT !.egld_balance = acct.egld_balance + value])

\* TxCache::increase_egld_balance
increase_egld_balance(cache, a, value) ==
    LET acct == with_account(cache, a)
    IN  with_account_mut(cache, a, [acct EXCEPT !.egld_balance = acct.egld_balance + value])

\* TxCache::transfer_egld_balance
transfer_egld_balance(cache, from, to, value) ==
    LET sub == subtract_egld_balance(cache, from, value)
    IN  IF sub.ok THEN Ok(increase_egld_balance(sub.cache, to, value)) ELSE sub

\* TxCache::transfer_esdt_balance
transfer_esdt_balance(cache, from, to, token, nonce, value) ==
    LET k == <<token, nonce>>
        src == with_account(cache, from)
    IN  IF value > src.esdt[k]
        THEN Err(cache, vm_error("insufficient funds"))
        ELSE LET c1 == with_account_mut(cache, from,
                                [src EXCEPT !.esdt[k] = src.esdt[k] - value])
                 dst == with_account(c1, to)
             IN  Ok(with_account_mut(c1, to, [dst EXCEPT !.esdt[k] = dst.esdt[k] + value]))

\* BlockchainUpdate::empty
BlockchainUpdate_empty == <<>>

\* TxCache::into_blockchain_updates: the working set becomes the update
into_blockchain_updates(cache) == cache

\* BlockchainUpdate applied to the store by the caller
Applied(update) ==
    [a \in DOMAIN accounts \cup DOMAIN update |->
        IF a \in DOMAIN update THEN update[a] ELSE accounts[a]]

\* mutant: the writes held by the cache are written through to the store
blockchain_ref_written_through(cache) == Applied(cache)

\* TxCache::blockchain_ref: the committed store the cache reads through, held
\* by a shared reference that gives no write access
blockchain_ref(cache) == accounts

----------------------------------------------------------------------------
(* Results *)

\* TxResult::empty
TxResult_empty ==
    [result_status |-> 0,
     result_message |-> "",
     result_values |-> <<>>,
     result_logs |-> <<>>]

\* TxResult::from_panic_obj / TxOutput::from_panic_obj
from_panic_obj(panic_obj) ==
    [result_status |-> panic_obj.status,
     result_message |-> panic_obj.message,
     result_values |-> <<>>,
     result_logs |-> <<>>]

\* TxOutput::from_panic_string
from_panic_string(panic_string) ==
    [result_status |-> 4,
     result_message |-> "panic occurred: " \o panic_string,
     result_values |-> <<>>,
     result_logs |-> <<>>]

\* mutant: a new context starts from the scratch and result of the one on top
TxContext_new_inherits(tx_input) ==
    [tx_input |-> tx_input,
     managed_types |-> IF stack = <<>> THEN <<>> ELSE stack[Len(stack)].managed_types,
     tx_result |-> IF stack = <<>> THEN TxResult_empty ELSE stack[Len(stack)].tx_result]

\* TxContext::new: a fresh scratch space and an empty in-progress result
TxContext_new(tx_input) ==
    [tx_input |-> tx_input,
     managed_types |-> <<>>,
     tx_result |-> TxResult_empty]

\* TxContext::extract_result: the cell's content, an empty result left behind
extract_result(ctx) ==
    [tx_result |-> ctx.tx_result, ctx |-> [ctx EXCEPT !.tx_result = TxResult_empty]]

----------------------------------------------------------------------------
(* Contracts *)

\* the contract map: per deployed contract reference, its function selector's
\* endpoint names and its ContractContainer.panic_message flag
ContractMap ==
    [contract |-> [endpoints |-> {"init", "ep"}, panic_message |-> TRUE],
     quiet |-> [endpoints |-> {"init", "ep"}, panic_message |-> FALSE],
     noinit |-> [endpoints |-> {"ep"}, panic_message |-> TRUE]]

ContractPaths == DOMAIN ContractMap

\* TxFunctionName::INIT
INIT == "init"

\* the payloads contract code can panic with
PanicPayloads ==
    {[kind |-> "TxPanic", status |-> 4, message |-> "boom"],
     [kind |-> "TxPanic", status |-> 10, message |-> "argument out of range"],
     [kind |-> "String", status |-> 0, message |-> "boom"],
     [kind |-> "str", status |-> 0, message |-> "bang"],
     [kind |-> "other", status |-> 0, message |-> ""]}

\* how a call of the function selector ends
Returned(call_successful) ==
    [kind |-> "return", call_successful |-> call_successful,
     payload |-> [kind |-> "other", status |-> 0, message |-> ""]]
Panicked(payload) ==
    [kind |-> "panic", call_successful |-> FALSE, payload |-> payload]

----------------------------------------------------------------------------
(* Panic Translator *)

\* err_msg::PANIC_OCCURRED
PANIC_OCCURRED == "panic occurred"

\* mutant: the diagnostic flag is not consulted
interpret_panic_str_always_detailed(panic_str, panic_message_flag) ==
    user_error("panic occurred: " \o panic_str)

\* interpret_panic_str_as_tx_result
interpret_panic_str_as_tx_result(panic_str, panic_message_flag) ==
    IF panic_message_flag
    THEN user_error("panic occurred: " \o panic_str)
    ELSE user_error(PANIC_OCCURRED)

\* mutant: the payload is never recognised as a TxPanic
interpret_panic_without_downcast(panic_any, panic_message_flag) ==
    IF panic_any.kind = "String"
    THEN interpret_panic_str_as_tx_result(panic_any.message, panic_message_flag)
    ELSE IF panic_any.kind = "str"
    THEN interpret_panic_str_as_tx_result(panic_any.message, panic_message_flag)
    ELSE user_error("unknown panic object")

\* interpret_panic_as_tx_result
interpret_panic_as_tx_result(panic_any, panic_message_flag) ==
    IF panic_any.kind = "TxPanic"
    THEN TxPanic(panic_any.status, panic_any.message)
    ELSE IF panic_any.kind = "String"
    THEN interpret_panic_str_as_tx_result(panic_any.message, panic_message_flag)
    ELSE IF panic_any.kind = "str"
    THEN interpret_panic_str_as_tx_result(panic_any.message, panic_message_flag)
    ELSE user_error("unknown panic object")

NoPanic == TxPanic(0, "")
NoPayload == [kind |-> "other", status |-> 0, message |-> ""]

\* mutant: a selector that does not match is reported as a user error
endpoint_closure_user_error(outcome) ==
    IF outcome.kind = "panic"
    THEN [tag |-> "Unwind", err |-> NoPanic, payload |-> outcome.payload]
    ELSE IF outcome.call_successful
    THEN [tag |-> "Ok", err |-> NoPanic, payload |-> NoPayload]
    ELSE [tag |-> "Err", err |-> user_error("invalid function (not found)"),
          payload |-> NoPayload]

\* the closure execute_contract_instance_endpoint hands to catch_tx_panic
endpoint_closure(outcome) ==
    IF outcome.kind = "panic"
    THEN [tag |-> "Unwind", err |-> NoPanic, payload |-> outcome.payload]
    ELSE IF outcome.call_successful
    THEN [tag |-> "Ok", err |-> NoPanic, payload |-> NoPayload]
    ELSE [tag |-> "Err", err |-> TxPanic(1, "invalid function (not found)"),
          payload |-> NoPayload]

\* catch_tx_panic: the guarded region; an unwinding panic becomes Err
catch_tx_panic(panic_message, r) ==
    IF r.tag = "Unwind"
    THEN [tag |-> "Err",
          err |-> interpret_panic_as_tx_result(r.payload, panic_message),
          payload |-> NoPayload]
    ELSE r

----------------------------------------------------------------------------
(* Context Stack *)

\* TxContextStack::static_peek: only the top frame is addressable
static_peek(stk) == stk[Len(stk)]

\* TxContextStack::static_push
static_push(stk, ctx) == Append(stk, ctx)

\* mutant: the frame is read but left on the stack
static_pop_leaves_frame(stk) == [ctx |-> stk[Len(stk)], stack |-> stk]

\* TxContextStack::static_pop
static_pop(stk) == [ctx |-> stk[Len(stk)], stack |-> SubSeq(stk, 1, Len(stk) - 1)]

\* a write through TxContextRef::new_from_static()
WithTop(stk, ctx) == [stk EXCEPT ![Len(stk)] = ctx]

\* TxContextRef::replace_tx_result_with_error
replace_tx_result_with_error(stk, tx_panic) ==
    WithTop(stk, [static_peek(stk) EXCEPT !.tx_result = from_panic_obj(tx_panic)])

\* mutant: the error is written into the accumulated result, not in its place
execute_contract_instance_endpoint_merges(stk, panic_message, outcome) ==
    LET result == catch_tx_panic(panic_message, endpoint_closure(outcome))
        stk1 == IF result.tag = "Err"
                THEN WithTop(stk, [static_peek(stk) EXCEPT
                                     !.tx_result.result_status = result.err.status,
                                     !.tx_result.result_message = result.err.message])
                ELSE stk
        ex == extract_result(static_peek(stk1))
    IN  [escaped |-> result.tag = "Unwind",
         stack |-> WithTop(stk1, ex.ctx),
         tx_result |-> ex.tx_result]

\* mutant: the selector is called outside the guarded region
execute_contract_instance_endpoint_unguarded(stk, panic_message, outcome) ==
    LET result == endpoint_closure(outcome)
        stk1 == IF result.tag = "Err"
                THEN replace_tx_result_with_error(stk, result.err)
                ELSE stk
        ex == extract_result(static_peek(stk1))
    IN  [escaped |-> result.tag = "Unwind",
         stack |-> WithTop(stk1, ex.ctx),
         tx_result |-> ex.tx_result]

\* execute_contract_instance_endpoint, from the moment the selector call ends
execute_contract_instance_endpoint(stk, panic_message, outcome) ==
    LET result == catch_tx_panic(panic_message, endpoint_closure(outcome))
        stk1 == IF result.tag = "Err"
                THEN replace_tx_result_with_error(stk, result.err)
                ELSE stk
        ex == extract_result(static_peek(stk1))
    IN  [escaped |-> result.tag = "Unwind",
         stack |-> WithTop(stk1, ex.ctx),
         tx_result |-> ex.tx_result]

\* get_contract_identifier: the recipient's contract_path, None when it has none
get_contract_identifier(cache, ctx) == with_account(cache, ctx.tx_input.to).contract_path

\* mutant: the context is not popped when the dispatch ends
execute_tx_context_rc_end_keeps_frame(stk, sv, panic_message, outcome) ==
    LET e == execute_contract_instance_endpoint(stk, panic_message, outcome)
    IN  [kind |-> IF e.escaped THEN "abort" ELSE "done",
         stack |-> IF e.escaped THEN stk ELSE e.stack,
         static_vars |-> sv,
         ctx |-> static_peek(e.stack),
         tx_result |-> e.tx_result,
         fatal |-> IF e.escaped THEN "panic escaped" ELSE "",
         pushes |-> 0,
         ended |-> <<[outcome |-> outcome,
                      panic_message |-> panic_message,
                      depth |-> Len(stk),
                      written |-> static_peek(stk).tx_result,
                      escaped |-> e.escaped,
                      tx_context |-> static_peek(e.stack),
                      tx_result |-> e.tx_result]>>]

\* execute_tx_context_rc after the selector call: result extraction, then the pops
execute_tx_context_rc_end(stk, sv, panic_message, outcome) ==
    LET e == execute_contract_instance_endpoint(stk, panic_message, outcome)
        p == static_pop(e.stack)
    IN  [kind |-> IF e.escaped THEN "abort" ELSE "done",
         stack |-> IF e.escaped THEN stk ELSE p.stack,
         static_vars |-> IF e.escaped THEN sv ELSE sv - 1,
         ctx |-> p.ctx,
         tx_result |-> e.tx_result,
         fatal |-> IF e.escaped THEN "panic escaped" ELSE "",
         pushes |-> 0,
         ended |-> <<[outcome |-> outcome,
                      panic_message |-> panic_message,
                      depth |-> Len(stk),
                      written |-> static_peek(stk).tx_result,
                      escaped |-> e.escaped,
                      tx_context |-> p.ctx,
                      tx_result |-> e.tx_result]>>]

\* the digits of hex::encode
HexDigits == <<"0", "1", "2", "3", "4", "5", "6", "7",
               "8", "9", "a", "b", "c", "d", "e", "f">>

\* hex::encode of a byte sequence
RECURSIVE hex_encode(_)
hex_encode(bytes) ==
    IF bytes = <<>> THEN ""
    ELSE HexDigits[(bytes[1] \div 16) + 1] \o HexDigits[(bytes[1] % 16) + 1]
         \o hex_encode(Tail(bytes))

\* display_util::address_hex
address_hex(a) == "0x" \o hex_encode(to_vec(a))

\* mutant: the context is pushed before the recipient's contract is looked up
execute_tx_context_pushes_first(stk, sv, cache, ctx) ==
    LET contract_identifier == get_contract_identifier(cache, ctx)
        pushed == static_push(stk, ctx)
    IN  IF contract_identifier = <<>>
        THEN [kind |-> "abort", stack |-> pushed, static_vars |-> sv + 1, ctx |-> ctx,
              tx_result |-> TxResult_empty,
              fatal |-> "Recipient account is not a smart contract "
                        \o address_hex(ctx.tx_input.to),
              pushes |-> 1, ended |-> <<>>]
        ELSE LET contract_container == ContractMap[contract_identifier[1]]
             IN  IF ctx.tx_input.func_name \in contract_container.endpoints
                 THEN [kind |-> "running", stack |-> pushed, static_vars |-> sv + 1,
                       ctx |-> ctx, tx_result |-> TxResult_empty, fatal |-> "",
                       pushes |-> 1, ended |-> <<>>]
                 ELSE [execute_tx_context_rc_end(pushed, sv + 1,
                                                 contract_container.panic_message,
                                                 Returned(FALSE))
                       EXCEPT !.pushes = 1]

\* execute_tx_context / execute_tx_context_rc up to the selector call; a selector
\* that does not match returns at once and the dispatch ends in the same step
execute_tx_context(stk, sv, cache, ctx) ==
    LET contract_identifier == get_contract_identifier(cache, ctx)
    IN  IF contract_identifier = <<>>
        THEN [kind |-> "abort", stack |-> stk, static_vars |-> sv, ctx |-> ctx,
              tx_result |-> TxResult_empty,
              fatal |-> "Recipient account is not a smart contract "
                        \o address_hex(ctx.tx_input.to),
              pushes |-> 0, ended |-> <<>>]
        ELSE LET contract_container == ContractMap[contract_identifier[1]]
                 pushed == static_push(stk, ctx)
             IN  IF ctx.tx_input.func_name \in contract_container.endpoints
                 THEN [kind |-> "running", stack |-> pushed, static_vars |-> sv + 1,
                       ctx |-> ctx, tx_result |-> TxResult_empty, fatal |-> "",
                       pushes |-> 1, ended |-> <<>>]
                 ELSE [execute_tx_context_rc_end(pushed, sv + 1,
                                                 contract_container.panic_message,
                                                 Returned(FALSE))
                       EXCEPT !.pushes = 1]

----------------------------------------------------------------------------
(* Execution Engine: default_execution *)

\* what an entry point has come to: it returned, it aborted, or contract code runs
Returned_(cache, tx_result, new_address, blockchain_updates) ==
    [kind |-> "returned", tx_cache |-> cache, stack |-> <<>>, static_vars |-> 0,
     tx_result |-> tx_result, new_address |-> new_address,
     blockchain_updates |-> blockchain_updates, fatal |-> "",
     pushes |-> 0, ended |-> <<>>]
Running_(cache, d) ==
    [kind |-> "running", tx_cache |-> cache, stack |-> d.stack,
     static_vars |-> d.static_vars, tx_result |-> TxResult_empty,
     new_address |-> VMAddress_zero, blockchain_updates |-> BlockchainUpdate_empty,
     fatal |-> "", pushes |-> d.pushes, ended |-> d.ended]
Aborted_(cache, stk, sv, fatal) ==
    [kind |-> "aborted", tx_cache |-> cache, stack |-> stk, static_vars |-> sv,
     tx_result |-> TxResult_empty, new_address |-> VMAddress_zero,
     blockchain_updates |-> BlockchainUpdate_empty, fatal |-> fatal,
     pushes |-> 0, ended |-> <<>>]

\* default_execution, lines 23-38: the system transfer log, or None
transfer_value_log(tx_input) ==
    IF is_smart_contract_address(tx_input.from) /\ tx_input.egld_value # 0
    THEN <<[address |-> VMAddress_zero,
            endpoint |-> "transferValueOnly",
            topics |-> <<to_vec(tx_input.from), to_vec(tx_input.to),
                         to_bytes_be(tx_input.egld_value)>>,
            data |-> <<>>]>>
    ELSE <<>>

\* mutant: the transfer log is pushed after the logs of the call
default_execution_end_appends(tv_log, tx_result, cache) ==
    Returned_(cache,
              IF tv_log # <<>>
              THEN [tx_result EXCEPT !.result_logs = Append(@, tv_log[1])]
              ELSE tx_result,
              VMAddress_zero,
              into_blockchain_updates(cache))

\* mutant: a failed dispatch discards the cache
default_execution_end_rolls_back(tv_log, tx_result, cache) ==
    Returned_(cache,
              IF tv_log # <<>>
              THEN [tx_result EXCEPT !.result_logs = <<tv_log[1]>> \o @]
              ELSE tx_result,
              VMAddress_zero,
              IF tx_result.result_status = 0
              THEN into_blockchain_updates(cache)
              ELSE BlockchainUpdate_empty)

\* default_execution, lines 65-71: the log is inserted first, the cache reclaimed
default_execution_end(tv_log, tx_result, cache) ==
    Returned_(cache,
              IF tv_log # <<>>
              THEN [tx_result EXCEPT !.result_logs = <<tv_log[1]>> \o @]
              ELSE tx_result,
              VMAddress_zero,
              into_blockchain_updates(cache))

\* mutant: a direct transfer only when both conditions hold
default_execution_dispatch_and(tx_context, tv_log, cache) ==
    IF ~is_smart_contract_address(tx_context.tx_input.to)
       /\ tx_context.tx_input.func_name = ""
    THEN default_execution_end(tv_log, TxResult_empty, cache)
    ELSE LET d == execute_tx_context(<<>>, 0, cache, tx_context)
         IN  CASE d.kind = "done" ->
                      [default_execution_end(tv_log, d.tx_result, cache)
                       EXCEPT !.pushes = d.pushes, !.ended = d.ended]
               [] d.kind = "running" -> Running_(cache, d)
               [] OTHER -> Aborted_(cache, d.stack, d.static_vars, d.fatal)

\* default_execution, lines 54-63: a direct transfer, or the dispatch
default_execution_dispatch(tx_context, tv_log, cache) ==
    IF ~is_smart_contract_address(tx_context.tx_input.to)
       \/ tx_context.tx_input.func_name = ""
    THEN default_execution_end(tv_log, TxResult_empty, cache)
    ELSE LET d == execute_tx_context(<<>>, 0, cache, tx_context)
         IN  CASE d.kind = "done" ->
                      [default_execution_end(tv_log, d.tx_result, cache)
                       EXCEPT !.pushes = d.pushes, !.ended = d.ended]
               [] d.kind = "running" -> Running_(cache, d)
               [] OTHER -> Aborted_(cache, d.stack, d.static_vars, d.fatal)

RECURSIVE default_execution_esdt(_, _, _, _)

\* mutant: a failing token transfer returns the cache reclaimed, not an empty update
default_execution_esdt_reclaims(tx_context, tv_log, cache, i) ==
    IF i > Len(tx_context.tx_input.esdt_values)
    THEN default_execution_dispatch(tx_context, tv_log, cache)
    ELSE LET esdt_transfer == tx_context.tx_input.esdt_values[i]
             transfer_result ==
                 transfer_esdt_balance(cache, tx_context.tx_input.from,
                                       tx_context.tx_input.to,
                                       esdt_transfer.token_identifier,
                                       esdt_transfer.nonce, esdt_transfer.value)
         IN  IF ~transfer_result.ok
             THEN Returned_(transfer_result.cache,
                            from_panic_obj(transfer_result.err),
                            VMAddress_zero,
                            into_blockchain_updates(transfer_result.cache))
             ELSE default_execution_esdt(tx_context, tv_log,
                                         transfer_result.cache, i + 1)

\* default_execution, lines 40-52: the token transfers from the i-th on, in order
default_execution_esdt(tx_context, tv_log, cache, i) ==
    IF i > Len(tx_context.tx_input.esdt_values)
    THEN default_execution_dispatch(tx_context, tv_log, cache)
    ELSE LET esdt_transfer == tx_context.tx_input.esdt_values[i]
             transfer_result ==
                 transfer_esdt_balance(cache, tx_context.tx_input.from,
                                       tx_context.tx_input.to,
                                       esdt_transfer.token_identifier,
                                       esdt_transfer.nonce, esdt_transfer.value)
         IN  IF ~transfer_result.ok
             THEN Returned_(transfer_result.cache,
                            from_panic_obj(transfer_result.err),
                            VMAddress_zero, BlockchainUpdate_empty)
             ELSE default_execution_esdt(tx_context, tv_log,
                                         transfer_result.cache, i + 1)

\* mutant: the error of the native-coin transfer is dropped
default_execution_ignores_err(tx_input, cache) ==
    LET tx_context == TxContext_new(tx_input)
        egld == transfer_egld_balance(cache, tx_input.from, tx_input.to,
                                      tx_input.egld_value)
    IN  default_execution_esdt(tx_context, transfer_value_log(tx_input),
                               egld.cache, 1)

\* default_execution, from its first line
default_execution(tx_input, cache) ==
    LET tx_context == TxContext_new(tx_input)
        egld == transfer_egld_balance(cache, tx_input.from, tx_input.to,
                                      tx_input.egld_value)
    IN  IF ~egld.ok
        THEN Returned_(egld.cache, from_panic_obj(egld.err), VMAddress_zero,
                       BlockchainUpdate_empty)
        ELSE default_execution_esdt(tx_context, transfer_value_log(tx_input),
                                    egld.cache, 1)

----------------------------------------------------------------------------
(* Execution Engine: deploy_contract *)

\* deploy_contract, lines 100-103
\* mutant: a failed initializer discards the cache
deploy_contract_end_rolls_back(new_address, tx_result, cache) ==
    Returned_(cache, tx_result, new_address,
              IF tx_result.result_status = 0
              THEN into_blockchain_updates(cache)
              ELSE BlockchainUpdate_empty)

\* deploy_contract, lines 100-103
deploy_contract_end(new_address, tx_result, cache) ==
    Returned_(cache, tx_result, new_address, into_blockchain_updates(cache))

\* mutant: the account is inserted before the assertion is made
create_new_contract_inserts_first(cache, new_address, contract_path, contract_owner) ==
    LET inserted == insert_account(cache,
                        new_contract_account(new_address, contract_path, contract_owner))
    IN  IF account_exists(new_address)
        THEN Err(inserted, TxPanic(0, "Account already exists at deploy address."))
        ELSE Ok(inserted)

\* TxContext::create_new_contract: the assertion reads the committed store
create_new_contract(cache, new_address, contract_path, contract_owner) ==
    IF account_exists(new_address)
    THEN Err(cache, TxPanic(0, "Account already exists at deploy address."))
    ELSE Ok(insert_account(cache,
                new_contract_account(new_address, contract_path, contract_owner)))

\* mutant: the account is registered before the deployer's balance is checked
deploy_contract_registers_first(tx_input0, contract_path, cache) ==
    LET new_address ==
            get_new_address(tx_input0.from, with_account(cache, tx_input0.from).nonce)
        tx_input == [tx_input0 EXCEPT !.to = new_address, !.func_name = INIT]
        tx_context == TxContext_new(tx_input)
        created == create_new_contract(cache, new_address, contract_path, tx_input.from)
        sub == subtract_egld_balance(created.cache, tx_input.from, tx_input.egld_value)
    IN  IF ~created.ok
        THEN Aborted_(created.cache, <<>>, 0, created.err.message)
        ELSE IF ~sub.ok
        THEN Returned_(sub.cache, from_panic_obj(sub.err), new_address,
                       into_blockchain_updates(sub.cache))
        ELSE LET c == increase_egld_balance(sub.cache, new_address,
                                            tx_input.egld_value)
                 d == execute_tx_context(<<>>, 0, c, tx_context)
             IN  CASE d.kind = "done" ->
                          [deploy_contract_end(new_address, d.tx_result, c)
                           EXCEPT !.pushes = d.pushes, !.ended = d.ended]
                   [] d.kind = "running" ->
                          [Running_(c, d) EXCEPT !.new_address = new_address]
                   [] OTHER -> Aborted_(c, d.stack, d.static_vars, d.fatal)

\* deploy_contract, from its first line
deploy_contract(tx_input0, contract_path, cache) ==
    LET new_address ==
            get_new_address(tx_input0.from, with_account(cache, tx_input0.from).nonce)
        tx_input == [tx_input0 EXCEPT !.to = new_address, !.func_name = INIT]
        tx_context == TxContext_new(tx_input)
        sub == subtract_egld_balance(cache, tx_input.from, tx_input.egld_value)
    IN  IF ~sub.ok
        THEN Returned_(sub.cache, from_panic_obj(sub.err), VMAddress_zero,
                       BlockchainUpdate_empty)
        ELSE LET created == create_new_contract(sub.cache, new_address,
                                                contract_path, tx_input.from)
             IN  IF ~created.ok
                 THEN Aborted_(created.cache, <<>>, 0, created.err.message)
                 ELSE LET c == increase_egld_balance(created.cache, new_address,
                                                     tx_input.egld_value)
                          d == execute_tx_context(<<>>, 0, c, tx_context)
                      IN  CASE d.kind = "done" ->
                                   [deploy_contract_end(new_address, d.tx_result, c)
                                    EXCEPT !.pushes = d.pushes, !.ended = d.ended]
                            [] d.kind = "running" ->
                                   [Running_(c, d) EXCEPT !.new_address = new_address]
                            [] OTHER ->
                                   Aborted_(c, d.stack, d.static_vars, d.fatal)

----------------------------------------------------------------------------
(* Inputs *)

EgldValues == {0, 258}

EsdtTransfers ==
    {[token_identifier |-> k[1], nonce |-> k[2], value |-> 1] : k \in TokenKeys}

RECURSIVE SeqsUpTo(_, _)
SeqsUpTo(S, n) ==
    IF n = 0 THEN {<<>>}
    ELSE LET shorter == SeqsUpTo(S, n - 1)
         IN  shorter \cup {Append(q, x) : q \in {r \in shorter : Len(r) = n - 1}, x \in S}

TxInputs ==
    [from : {Alice, ScA},
     to : {Alice, ScA, ScB},
     egld_value : EgldValues,
     esdt_values : SeqsUpTo(EsdtTransfers, MaxEsdt),
     func_name : {"", "ep", "missing"}]

DeployInputs ==
    [from : {Alice, ScA},
     to : {VMAddress_zero},
     egld_value : EgldValues,
     esdt_values : {<<>>},
     func_name : {""}]

Account(address, egld_balance, t1, t2, contract_path) ==
    [address |-> address,
     nonce |-> 0,
     egld_balance |-> egld_balance,
     storage |-> <<>>,
     esdt |-> [k \in TokenKeys |-> IF k[1] = "T1" THEN t1 ELSE t2],
     username |-> <<>>,
     contract_path |-> contract_path,
     contract_owner |-> IF contract_path = <<>> THEN <<>> ELSE <<Alice>>,
     developer_rewards |-> 0]

\* the stores a transaction is executed against
Stores ==
    {[a \in {Alice, ScA, ScB} \cup extra |->
        CASE a = Alice -> Account(Alice, b, 2, 0, <<>>)
          [] a = ScA -> Account(ScA, 300, 1, 0, <<"contract">>)
          [] a = ScB -> Account(ScB, 0, 0, 0, <<>>)
          [] OTHER -> Account(a, 0, 0, 0, <<"contract">>)]
     : <<b, extra>> \in {<<1, {}>>, <<300, {get_new_address(Alice, 0)}>>}}

NoCall ==
    [op |-> "none", tx_input |-> CHOOSE i \in DeployInputs : TRUE,
     contract_path |-> <<>>, creator_nonce |-> 0, tv_log |-> <<>>,
     new_address |-> VMAddress_zero, fatal |-> ""]

----------------------------------------------------------------------------
(* The state machine *)

NoContext == [kind |-> "none", args |-> <<>>]

\* no execute_tx_context is in progress and no cache is held
NoActivation == [calls |-> <<>>, frames |-> <<>>, cache |-> 0, tx_result |-> <<>>]

\* the sender of the call in progress
TheInputFrom == call.tx_input.from

Init ==
    /\ accounts \in Stores
    /\ tx_cache = <<>>
    /\ stack = <<>>
    /\ static_vars = 0
    /\ pc = "idle"
    /\ call = NoCall
    /\ ret = <<>>
    /\ last_end = <<>>
    /\ pushes = 0
    /\ saved_scratch = <<>>
    /\ steps = 0
    /\ ext_pc = "idle"
    /\ ext_ctx = NoContext
    /\ ext_shared = <<>>
    /\ ext_strong = 0
    /\ ext_last = <<>>
    /\ ext_ret = <<>>
    /\ ext_steps = 0
    /\ rc = NoActivation

\* an entry point has come to o: its caller sees the return, or contract code runs
Enter(op, tx_input, contract_path, tv_log, o) ==
    /\ tx_cache' = o.tx_cache
    /\ stack' = o.stack
    /\ static_vars' = o.static_vars
    /\ pc' = o.kind
    /\ call' = [op |-> op, tx_input |-> tx_input, contract_path |-> contract_path,
                creator_nonce |-> accounts[tx_input.from].nonce,
                tv_log |-> tv_log,
                new_address |-> o.new_address, fatal |-> o.fatal]
    /\ ret' = IF o.kind = "returned"
              THEN <<[tx_result |-> o.tx_result, new_address |-> o.new_address,
                      blockchain_updates |-> o.blockchain_updates]>>
              ELSE <<>>
    /\ saved_scratch' = [i \in 1..Len(o.stack) |-> <<>>]
    /\ last_end' = IF o.ended # <<>> THEN o.ended ELSE last_end
    /\ pushes' = pushes + o.pushes

\* the caller runs default_execution(tx_input, TxCache::new(store))
DefaultExecution(tx_input) ==
    /\ pc = "idle"
    /\ Enter("default", tx_input, <<>>, transfer_value_log(tx_input),
             default_execution(tx_input, <<>>))
    /\ accounts' = blockchain_ref(tx_cache')
    /\ UNCHANGED steps
    /\ UNCHANGED <<ext_vars, rc>>

\* the caller runs deploy_contract(tx_input, contract_path, TxCache::new(store))
DeployContract(tx_input, contract_path) ==
    /\ pc = "idle"
    /\ Enter("deploy", tx_input, <<contract_path>>, <<>>,
             deploy_contract(tx_input, contract_path, <<>>))
    /\ accounts' = blockchain_ref(tx_cache')
    /\ UNCHANGED steps
    /\ UNCHANGED <<ext_vars, rc>>

\* contract code appends a return value to the in-progress result (finish_slice_u8)
finish_slice_u8(stk, v) ==
    WithTop(stk, [static_peek(stk) EXCEPT
                    !.tx_result.result_values = Append(@, v)])

\* contract code appends a log to the in-progress result
write_log(stk, data) ==
    LET ctx == static_peek(stk)
    IN  WithTop(stk, [ctx EXCEPT !.tx_result.result_logs =
                         Append(@, [address |-> ctx.tx_input.to,
                                    endpoint |-> ctx.tx_input.func_name,
                                    topics |-> <<>>,
                                    data |-> data])])

\* contract code creates a managed value in the scratch space of the current context
new_managed_value(stk, v) ==
    WithTop(stk, [static_peek(stk) EXCEPT !.managed_types = Append(@, v)])

ContractStep(stk) ==
    /\ pc = "running"
    /\ steps < MaxSteps
    /\ stack' = stk
    /\ steps' = steps + 1
    /\ UNCHANGED <<tx_cache, static_vars, pc, call, ret, last_end,
                   pushes, saved_scratch>>
    /\ accounts' = blockchain_ref(tx_cache')
    /\ UNCHANGED <<ext_vars, rc>>

ContractFinish == ContractStep(finish_slice_u8(stack, <<steps + 1>>))

ContractWriteLog == ContractStep(write_log(stack, <<steps + 1>>))

ContractNewManagedValue == ContractStep(new_managed_value(stack, steps + 1))

\* a dispatch has ended with d (execute_tx_context's return): the entry point's
\* last lines run when it was the top-level dispatch, else the calling contract
\* code gets the pair back
DispatchEnded(d) ==
    IF d.kind = "abort"
    THEN /\ pc' = "aborted"
         /\ call' = [call EXCEPT !.fatal = d.fatal]
         /\ stack' = d.stack
         /\ static_vars' = d.static_vars
         /\ last_end' = d.ended
         /\ pushes' = pushes + d.pushes
         /\ UNCHANGED <<tx_cache, ret, saved_scratch>>
    ELSE IF d.ended[1].depth = 1
    THEN Enter(call.op, call.tx_input, call.contract_path, call.tv_log,
               [IF call.op = "default"
                THEN default_execution_end(call.tv_log, d.tx_result, tx_cache)
                ELSE deploy_contract_end(call.new_address, d.tx_result, tx_cache)
                EXCEPT !.ended = d.ended, !.pushes = d.pushes])
    ELSE /\ stack' = d.stack
         /\ static_vars' = d.static_vars
         /\ last_end' = d.ended
         /\ pushes' = pushes + d.pushes
         /\ saved_scratch' = [i \in 1..Len(d.stack) |->
                                 IF i <= Len(saved_scratch) THEN saved_scratch[i]
                                 ELSE stack[i - 1].managed_types]
         /\ UNCHANGED <<tx_cache, pc, call, ret>>

\* contract code makes a nested call: a new context for the same cache is dispatched
ContractCalls(func_name) ==
    /\ pc = "running"
    /\ steps < MaxSteps
    /\ Len(stack) < MaxDepth
    /\ LET cur == static_peek(stack).tx_input
           tx_context == TxContext_new([from |-> cur.to, to |-> cur.to,
                                        egld_value |-> 0, esdt_values |-> <<>>,
                                        func_name |-> func_name])
           d == execute_tx_context(stack, static_vars, tx_cache, tx_context)
       IN  IF d.kind = "running"
           THEN /\ stack' = d.stack
                /\ static_vars' = d.static_vars
                /\ saved_scratch' = Append(saved_scratch,
                                           static_peek(stack).managed_types)
                /\ pushes' = pushes + d.pushes
                /\ UNCHANGED <<tx_cache, pc, call, ret, last_end>>
           ELSE DispatchEnded(d)
    /\ steps' = steps + 1
    /\ accounts' = blockchain_ref(tx_cache')
    /\ UNCHANGED <<ext_vars, rc>>

\* the selector call of the current dispatch ends: it returns, or it panics
EndpointEnds(outcome) ==
    /\ pc = "running"
    /\ LET path == get_contract_identifier(tx_cache, static_peek(stack))[1]
       IN  DispatchEnded(execute_tx_context_rc_end(stack, static_vars,
                             ContractMap[path].panic_message, outcome))
    /\ accounts' = blockchain_ref(tx_cache')
    /\ UNCHANGED steps
    /\ UNCHANGED <<ext_vars, rc>>

EndpointReturns == EndpointEnds(Returned(TRUE))

EndpointPanics == \E payload \in PanicPayloads : EndpointEnds(Panicked(payload))

Next ==
    \/ \E tx_input \in TxInputs : DefaultExecution(tx_input)
    \/ \E tx_input \in DeployInputs, contract_path \in ContractPaths :
          DeployContract(tx_input, contract_path)
    \/ ContractFinish
    \/ ContractWriteLog
    \/ ContractNewManagedValue
    \/ \E func_name \in {"ep", "missing"} : ContractCalls(func_name)
    \/ EndpointReturns
    \/ EndpointPanics

Spec == Init /\ [][Next]_vars

----------------------------------------------------------------------------
(* The contract API of a context (ext_mock.rs) and the reclaim of a context *)
(* by its caller (ext_mock.rs into_output, tx_context.rs into_results)      *)

\* most API calls made on one context
MaxApiCalls == 2

vm_vars == <<accounts, tx_cache, stack, static_vars, pc, call, ret, last_end,
            pushes, saved_scratch, steps>>

\* b"ELROND", the reserved key marker
ELROND == <<69, 76, 82, 79, 78, 68>>

\* slice::starts_with
starts_with(s, prefix) ==
    /\ Len(s) >= Len(prefix)
    /\ SubSeq(s, 1, Len(prefix)) = prefix

\* TxOutput::default
TxOutput_default == [contract_storage |-> <<>>, result |-> TxResult_empty]

\* HashMap::insert
insert(map, key, value) ==
    [k \in DOMAIN map \cup {key} |-> IF k = key THEN value ELSE map[k]]

\* what an API call comes to: it returns a value, or it panics with a payload
ApiOk(tx_output, returned) ==
    [panic |-> <<>>, tx_output |-> tx_output, returned |-> <<returned>>]
ApiPanic(tx_output, payload) ==
    [panic |-> <<payload>>, tx_output |-> tx_output, returned |-> <<>>]

\* mutant: the reserved marker is checked after the write
storage_store_then_checks(tx_output, key, value) ==
    IF starts_with(key, ELROND)
    THEN ApiPanic([tx_output EXCEPT !.contract_storage = insert(@, key, value)],
                  [kind |-> "TxPanic", status |-> 10,
                   message |-> "cannot write to storage under Elrond reserved key"])
    ELSE ApiOk([tx_output EXCEPT !.contract_storage = insert(@, key, value)], <<>>)

\* storage_store
storage_store(tx_output, key, value) ==
    IF starts_with(key, ELROND)
    THEN ApiPanic(tx_output,
                  [kind |-> "TxPanic", status |-> 10,
                   message |-> "cannot write to storage under Elrond reserved key"])
    ELSE ApiOk([tx_output EXCEPT !.contract_storage = insert(@, key, value)], <<>>)

\* storage_load: a key that was never written gives the empty byte string
storage_load(tx_output, key) ==
    IF key \in DOMAIN tx_output.contract_storage
    THEN tx_output.contract_storage[key]
    ELSE <<>>

\* storage_store_bytes32
storage_store_bytes32(tx_output, key, value) == storage_store(tx_output, key, value)

\* mutant: the stored value is copied to the front of the result
storage_load_bytes32_left_aligned(tx_output, key, build) ==
    LET value == storage_load(tx_output, key)
    IN  IF Len(value) > 32
        THEN ApiPanic(tx_output,
                      [kind |-> "str", status |-> 0,
                       message |-> IF build = "debug"
                                   THEN "attempt to subtract with overflow"
                                   ELSE "range start index out of range"])
        ELSE ApiOk(tx_output,
                   [i \in 1..32 |-> IF i <= Len(value) THEN value[i] ELSE 0])

\* storage_load_bytes32: 32 - value.len() overflows for a longer stored value,
\* which panics at the subtraction (debug build) or at the slice (release build)
storage_load_bytes32(tx_output, key, build) ==
    LET value == storage_load(tx_output, key)
        offset == 32 - Len(value)
    IN  IF Len(value) > 32
        THEN ApiPanic(tx_output,
                      [kind |-> "str", status |-> 0,
                       message |-> IF build = "debug"
                                   THEN "attempt to subtract with overflow"
                                   ELSE "range start index out of range"])
        ELSE ApiOk(tx_output,
                   [i \in 1..32 |-> IF i <= offset THEN 0 ELSE value[i - offset]])

\* An arbitrary-precision unsigned integer is its base-256 digits, least
\* significant first, with no zero at the most significant end: zero is <<>>.
RECURSIVE BigUint_from(_)
BigUint_from(n) == IF n = 0 THEN <<>> ELSE <<n % 256>> \o BigUint_from(n \div 256)

\* the digits without the zeros at the most significant end
RECURSIVE normalized(_)
normalized(digits) ==
    IF digits # <<>> /\ digits[Len(digits)] = 0
    THEN normalized(SubSeq(digits, 1, Len(digits) - 1))
    ELSE digits

Reverse(s) == [i \in 1..Len(s) |-> s[Len(s) + 1 - i]]

\* RustBigUint::to_bytes_be: most significant digit first; zero is the empty
\* byte string
RustBigUint_to_bytes_be(value) == Reverse(value)

\* BigInt::from_bytes_be(Sign::Plus, bytes)
from_bytes_be(bytes) == normalized(Reverse(bytes))

\* mutant: the value is stored in little-endian byte order
storage_store_big_uint_le(tx_output, key, value) ==
    storage_store(tx_output, key, value)

\* storage_store_big_uint
storage_store_big_uint(tx_output, key, value) ==
    storage_store(tx_output, key, RustBigUint_to_bytes_be(value))

\* storage_load_big_uint
storage_load_big_uint(tx_output, key) ==
    ApiOk(tx_output, from_bytes_be(storage_load(tx_output, key)))

\* RustBigInt::to_signed_bytes_be: minimal two's complement, big-endian
RECURSIVE to_signed_bytes_be(_)
to_signed_bytes_be(n) ==
    IF n >= 0
    THEN LET b == to_bytes_be(n) IN IF b[1] >= 128 THEN <<0>> \o b ELSE b
    ELSE IF n >= -128 THEN <<256 + n>>
    ELSE to_signed_bytes_be((n - (n % 256)) \div 256) \o <<n % 256>>

\* storage_store_big_int
storage_store_big_int(tx_output, key, value) ==
    storage_store(tx_output, key, to_signed_bytes_be(value))

\* storage_store_i64
storage_store_i64(tx_output, key, value) == storage_store_big_int(tx_output, key, value)

\* get_argument_vec_u8: arg_index as usize makes a negative index a huge one
get_argument_vec_u8(tx_output, args, arg_index) ==
    IF arg_index < 0 \/ arg_index >= Len(args)
    THEN ApiPanic(tx_output, [kind |-> "str", status |-> 0,
                              message |-> "Tx arg index out of range"])
    ELSE ApiOk(tx_output, args[arg_index + 1])

\* the bytes of a two's-complement number without its redundant sign bytes
RECURSIVE strip_sign(_)
strip_sign(bytes) ==
    IF /\ Len(bytes) >= 2
       /\ \/ bytes[1] = 0 /\ bytes[2] < 128
          \/ bytes[1] = 255 /\ bytes[2] >= 128
    THEN strip_sign(Tail(bytes))
    ELSE bytes

\* BigInt::from_signed_bytes_be followed by to_i64: the 8 bytes of the i64, or None
to_i64(bytes) ==
    LET m == strip_sign(bytes)
        fill == IF m # <<>> /\ m[1] >= 128 THEN 255 ELSE 0
        pad == 8 - Len(m)
    IN  IF Len(m) > 8 THEN <<>>
        ELSE <<[i \in 1..8 |-> IF i <= pad THEN fill ELSE m[i - pad]]>>

\* get_argument_i64
get_argument_i64(tx_output, args, arg_index) ==
    LET bytes == get_argument_vec_u8(tx_output, args, arg_index)
    IN  IF bytes.panic # <<>> THEN bytes
        ELSE IF to_i64(bytes.returned[1]) # <<>>
        THEN ApiOk(tx_output, to_i64(bytes.returned[1])[1])
        ELSE ApiPanic(tx_output, [kind |-> "TxPanic", status |-> 10,
                                  message |-> "argument out of range"])

\* Rc::try_unwrap(..).unwrap(): the value when this is the only strong handle
Rc_try_unwrap(strong) == strong = 1

\* what a reclaim comes to: the reclaimed values, or a fatal abort
Reclaimed(values) == [ok |-> TRUE, values |-> <<values>>, fatal |-> ""]
ReclaimAborts ==
    [ok |-> FALSE, values |-> <<>>,
     fatal |-> "called Result::unwrap() on an Err value"]

\* TxContext::into_output (ext_mock.rs)
into_output(tx_output, strong) ==
    IF Rc_try_unwrap(strong)
    THEN Reclaimed([tx_output |-> tx_output])
    ELSE ReclaimAborts

\* mutant: the cache is consumed through the shared handle, whoever else holds it
TxContext_into_blockchain_updates_shared(cache, strong) ==
    Reclaimed([blockchain_updates |-> into_blockchain_updates(cache)])

\* TxContext::into_blockchain_updates (tx_context.rs)
TxContext_into_blockchain_updates(cache, strong) ==
    IF Rc_try_unwrap(strong)
    THEN Reclaimed([blockchain_updates |-> into_blockchain_updates(cache)])
    ELSE ReclaimAborts

\* TxContext::into_results
into_results(tx_result, cache, strong) ==
    IF Rc_try_unwrap(strong)
    THEN Reclaimed([tx_result |-> tx_result,
                    blockchain_updates |-> into_blockchain_updates(cache)])
    ELSE ReclaimAborts

\* the inputs of the API calls
StorageKeys == {<<107>>, ELROND, ELROND \o <<107>>, SubSeq(ELROND, 1, 5)}
Value32 == [i \in 1..32 |-> i]
Value33 == [i \in 1..33 |-> 1]
RawValues == {<<>>, <<7, 0>>, Value33}
BigUints == {BigUint_from(0), BigUint_from(258)}
BigInts == {-1}
ArgLists == {<<>>, << <<0, 0, 0, 0, 0, 0, 0, 0, 133>>, <<1, 0, 0, 0, 0, 0, 0, 0, 0>> >>}
ArgIndexes == {-1, 0, 1, 2}

NoInput == [key |-> <<>>, value |-> <<>>, index |-> 0]

\* a caller builds a context: TxContext::new(info, tx_input, TxOutput::default())
\* of ext_mock.rs, or TxContext::new(tx_input, TxCache::new(store)) of the VM
ExtNew(kind, args) ==
    /\ ext_pc = "idle"
    /\ pc = "idle"
    /\ ext_pc' = "running"
    /\ ext_ctx' = [kind |-> kind, args |-> args]
    /\ ext_shared' = IF kind = "ext" THEN TxOutput_default ELSE <<>>
    /\ ext_strong' = 1
    /\ UNCHANGED <<ext_last, ext_ret, ext_steps>>
    /\ UNCHANGED <<vm_vars, rc>>

\* contract code makes the API call op, which comes to o; a panic ends the
\* dispatch with the Result the Panic Translator gives, under the diagnostic
\* flag of the contract's container
ExtApi(op, input, o) ==
    /\ ext_pc = "running"
    /\ ext_ctx.kind = "ext"
    /\ ext_steps < MaxApiCalls
    /\ ext_steps' = ext_steps + 1
    /\ ext_shared' = o.tx_output
    /\ ext_last' = <<[op |-> op, input |-> input, before |-> ext_shared,
                      returned |-> o.returned, panic |-> o.panic,
                      strong |-> ext_strong, fatal |-> ""]>>
    /\ IF o.panic # <<>>
       THEN /\ ext_pc' = "ended"
            /\ \E panic_message \in BOOLEAN :
                  ext_ret' = <<from_panic_obj(
                                 catch_tx_panic(panic_message,
                                     endpoint_closure(Panicked(o.panic[1]))).err)>>
       ELSE UNCHANGED <<ext_pc, ext_ret>>
    /\ UNCHANGED <<ext_ctx, ext_strong>>
    /\ UNCHANGED <<vm_vars, rc>>

ExtStorageStore ==
    \E key \in StorageKeys, value \in RawValues :
        ExtApi("storage_store", [key |-> key, value |-> value, index |-> 0],
               storage_store(ext_shared, key, value))

ExtStorageStoreBytes32 ==
    \E key \in StorageKeys :
        ExtApi("storage_store_bytes32", [key |-> key, value |-> Value32, index |-> 0],
               storage_store_bytes32(ext_shared, key, Value32))

ExtStorageStoreBigUint ==
    \E key \in StorageKeys, value \in BigUints :
        ExtApi("storage_store_big_uint", [key |-> key, value |-> value, index |-> 0],
               storage_store_big_uint(ext_shared, key, value))

ExtStorageStoreBigInt ==
    \E key \in StorageKeys, value \in BigInts :
        ExtApi("storage_store_big_int", [key |-> key, value |-> value, index |-> 0],
               storage_store_big_int(ext_shared, key, value))

ExtStorageStoreI64 ==
    \E key \in StorageKeys, value \in BigInts :
        ExtApi("storage_store_i64", [key |-> key, value |-> value, index |-> 0],
               storage_store_i64(ext_shared, key, value))

ExtStorageLoadBytes32 ==
    \E key \in StorageKeys, build \in {"debug", "release"} :
        ExtApi("storage_load_bytes32", [key |-> key, value |-> <<>>, index |-> 0],
               storage_load_bytes32(ext_shared, key, build))

ExtStorageLoadBigUint ==
    \E key \in StorageKeys :
        ExtApi("storage_load_big_uint", [key |-> key, value |-> <<>>, index |-> 0],
               storage_load_big_uint(ext_shared, key))

ExtGetArgumentVecU8 ==
    \E arg_index \in ArgIndexes :
        ExtApi("get_argument_vec_u8", [key |-> <<>>, value |-> <<>>, index |-> arg_index],
               get_argument_vec_u8(ext_shared, ext_ctx.args, arg_index))

ExtGetArgumentI64 ==
    \E arg_index \in ArgIndexes :
        ExtApi("get_argument_i64", [key |-> <<>>, value |-> <<>>, index |-> arg_index],
               get_argument_i64(ext_shared, ext_ctx.args, arg_index))

\* contract code keeps another handle: Clone for TxContext (ext_mock.rs), or
\* TxContext::blockchain_cache_rc (tx_context.rs)
ExtClone ==
    /\ ext_pc = "running"
    /\ ext_steps < MaxApiCalls
    /\ ext_steps' = ext_steps + 1
    /\ ext_strong' = ext_strong + 1
    /\ UNCHANGED <<ext_pc, ext_ctx, ext_shared, ext_last, ext_ret>>
    /\ UNCHANGED <<vm_vars, rc>>

\* a kept handle is dropped
ExtDrop ==
    /\ ext_pc \in {"running", "ended"}
    /\ ext_strong > 1
    /\ ext_strong' = ext_strong - 1
    /\ UNCHANGED <<ext_pc, ext_ctx, ext_shared, ext_last, ext_ret, ext_steps>>
    /\ UNCHANGED <<vm_vars, rc>>

\* contract code writes to an account through the cache of a VM context
VmWrite ==
    /\ ext_pc = "running"
    /\ ext_ctx.kind = "vm"
    /\ ext_steps < MaxApiCalls
    /\ ext_steps' = ext_steps + 1
    /\ ext_shared' = increase_egld_balance(ext_shared, Alice, 1)
    /\ UNCHANGED <<ext_pc, ext_ctx, ext_strong, ext_last, ext_ret>>
    /\ UNCHANGED <<vm_vars, rc>>

\* the endpoint returns
ExtEndpointReturns ==
    /\ ext_pc = "running"
    /\ ext_pc' = "ended"
    /\ ext_ret' = <<TxResult_empty>>
    /\ UNCHANGED <<ext_ctx, ext_shared, ext_strong, ext_last, ext_steps>>
    /\ UNCHANGED <<vm_vars, rc>>

\* the caller reclaims the context with method op, which comes to o
ExtReclaim(kind, op, o) ==
    /\ ext_pc = "ended"
    /\ ext_ctx.kind = kind
    /\ ext_pc' = IF o.ok THEN "reclaimed" ELSE "aborted"
    /\ ext_last' = <<[op |-> op, input |-> NoInput, before |-> ext_shared,
                      returned |-> o.values, panic |-> <<>>,
                      strong |-> ext_strong, fatal |-> o.fatal]>>
    /\ UNCHANGED <<ext_ctx, ext_shared, ext_strong, ext_ret, ext_steps>>
    /\ UNCHANGED <<vm_vars, rc>>

ExtIntoOutput == ExtReclaim("ext", "into_output", into_output(ext_shared, ext_strong))

VmIntoBlockchainUpdates ==
    ExtReclaim("vm", "into_blockchain_updates",
               TxContext_into_blockchain_updates(ext_shared, ext_strong))

VmIntoResults ==
    ExtReclaim("vm", "into_results", into_results(ext_ret[1], ext_shared, ext_strong))

NextExt ==
    \/ \E kind \in {"ext", "vm"}, args \in ArgLists : ExtNew(kind, args)
    \/ ExtStorageStore
    \/ ExtStorageStoreBytes32
    \/ ExtStorageStoreBigUint
    \/ ExtStorageStoreBigInt
    \/ ExtStorageStoreI64
    \/ ExtStorageLoadBytes32
    \/ ExtStorageLoadBigUint
    \/ ExtGetArgumentVecU8
    \/ ExtGetArgumentI64
    \/ ExtClone
    \/ ExtDrop
    \/ VmWrite
    \/ ExtEndpointReturns
    \/ ExtIntoOutput
    \/ VmIntoBlockchainUpdates
    \/ VmIntoResults

SpecExt == Init /\ [][NextExt]_vars

----------------------------------------------------------------------------
(* Deploys made in sequence by a caller that commits the Blockchain Update  *)
(* of one before it makes the next                                          *)

\* highest nonce a creator reaches
MaxNonce == 1

\* the payloads an initializer panics with in a sequence of deploys
SeqOutcomes == {Returned(TRUE), Panicked([kind |-> "str", status |-> 0, message |-> "bang"])}

\* the contract code deployed in a sequence of deploys
SeqPaths == {"contract"}

\* deploy_contract run to its return, the initializer ending with outcome
deploy_contract_to_return(tx_input, contract_path, outcome) ==
    LET o == deploy_contract(tx_input, contract_path, <<>>)
    IN  IF o.kind = "running"
        THEN LET d == execute_tx_context_rc_end(o.stack, o.static_vars,
                          ContractMap[contract_path].panic_message, outcome)
             IN  [deploy_contract_end(o.new_address, d.tx_result, o.tx_cache)
                  EXCEPT !.pushes = o.pushes, !.ended = d.ended]
        ELSE o

\* the caller runs deploy_contract(tx_input, contract_path, TxCache::new(store))
SeqDeploy(tx_input, contract_path, outcome) ==
    /\ pc = "idle"
    /\ Enter("deploy", tx_input, <<contract_path>>, <<>>,
             deploy_contract_to_return(tx_input, contract_path, outcome))
    /\ accounts' = blockchain_ref(tx_cache')
    /\ UNCHANGED steps
    /\ UNCHANGED <<ext_vars, rc>>

\* the caller applies the returned Blockchain Update to the store, or discards
\* it, and moves on to its next transaction, the sender's nonce raised or not
CallerCommits(keep, bump) ==
    /\ pc = "returned"
    /\ call.op = "deploy"
    /\ accounts[TheInputFrom].nonce + bump <= MaxNonce
    /\ accounts' = [IF keep THEN Applied(ret[1].blockchain_updates) ELSE accounts
                    EXCEPT ![TheInputFrom].nonce = accounts[TheInputFrom].nonce + bump]
    /\ pc' = "idle"
    /\ tx_cache' = <<>>
    /\ pushes' = 0
    /\ UNCHANGED <<stack, static_vars, call, ret, last_end, saved_scratch, steps>>
    /\ UNCHANGED <<ext_vars, rc>>

NextSeq ==
    \/ \E tx_input \in DeployInputs, contract_path \in SeqPaths,
          outcome \in SeqOutcomes :
          SeqDeploy(tx_input, contract_path, outcome)
    \/ \E keep \in BOOLEAN, bump \in {0, 1} : CallerCommits(keep, bump)

SpecSeq == Init /\ [][NextSeq]_vars

----------------------------------------------------------------------------
(* Contract code that writes to the storage of its own account, through the *)
(* cache of its context                                                     *)

\* TxContext::with_contract_account_mut: the write lands on the recipient's
\* account in the cache
with_contract_account_mut(cache, ctx, acct) ==
    with_account_mut(cache, ctx.tx_input.to, acct)

\* contract code stores a value under a key of its own
ContractStorageWrite ==
    /\ pc = "running"
    /\ steps < MaxSteps
    /\ LET ctx == static_peek(stack)
           acct == with_account(tx_cache, ctx.tx_input.to)
       IN  tx_cache' = with_contract_account_mut(tx_cache, ctx,
                           [acct EXCEPT !.storage = insert(@, <<steps + 1>>, <<7>>)])
    /\ steps' = steps + 1
    /\ UNCHANGED <<stack, static_vars, pc, call, ret, last_end, pushes,
                   saved_scratch>>
    /\ accounts' = blockchain_ref(tx_cache')
    /\ UNCHANGED <<ext_vars, rc>>

NextWrites ==
    \/ \E tx_input \in TxInputs : DefaultExecution(tx_input)
    \/ \E tx_input \in DeployInputs, contract_path \in ContractPaths :
          DeployContract(tx_input, contract_path)
    \/ ContractStorageWrite
    \/ \E func_name \in {"ep", "missing"} : ContractCalls(func_name)
    \/ EndpointReturns
    \/ EndpointPanics

SpecWrites == Init /\ [][NextWrites]_vars

----------------------------------------------------------------------------
(* execute_tx_context and execute_tx_context_rc line by line, with the       *)
(* handles of the dispatched context and of the cache counted                *)
(* (exec_contract_endpoint.rs lines 19-45, tx_context.rs lines 160-163)      *)

\* most handles contract code holds at a time in one dispatch
MaxHandles == 1

\* the inputs dispatched: an endpoint of a contract, an endpoint it does not
\* have, and the same on an account that holds no contract
RcInputs ==
    {i \in TxInputs : /\ i.from = Alice /\ i.to \in {ScA, ScB}
                      /\ i.egld_value = 0 /\ i.esdt_values = <<>>
                      /\ i.func_name # ""}

\* the innermost activation of execute_tx_context
Top == rc.calls[Len(rc.calls)]

\* line 20: Rc::new(tx_context), the one handle of a new activation; serial
\* tells the dispatches apart
Activation(tx_context, serial) ==
    [line |-> 30, strong |-> 1, temps |-> <<>>, serial |-> serial,
     depth |-> Len(stack), static_depth |-> static_vars,
     tx_context |-> tx_context, panic_message |-> FALSE,
     tx_result |-> TxResult_empty]

\* the activations with the innermost one replaced
WithTopCall(c) == [rc.calls EXCEPT ![Len(rc.calls)] = c]

\* Rc::clone (d = 1) or drop (d = -1) of a handle of the context that the
\* dispatch with this serial made
with_handle(calls, serial, d) ==
    [i \in 1..Len(calls) |->
        IF calls[i].serial = serial
        THEN [calls[i] EXCEPT !.strong = @ + d]
        ELSE calls[i]]

\* the handles in temps go out of scope
RECURSIVE released(_, _)
released(calls, temps) ==
    IF temps = <<>> THEN calls
    ELSE released(with_handle(calls, Head(temps), -1), Tail(temps))

\* mutant: tx_context_ref is kept when execute_tx_context_rc returns
execute_tx_context_rc_keeps_ref(strong) == strong - 1

\* lines 44-45: at the return of execute_tx_context_rc its locals go out of
\* scope: tx_context_ref (line 30) and the handle it was called with
execute_tx_context_rc_returns(strong) == strong - 2

\* the steps of SpecRc leave these alone
rc_frame == <<accounts, tx_cache, last_end, saved_scratch>>

\* an entry point has made its context, TxContext::new(tx_input, tx_cache), and
\* calls execute_tx_context on it (line 20)
RcExecuteTxContext(tx_input) ==
    /\ pc = "idle"
    /\ pc' = "running"
    /\ call' = [NoCall EXCEPT !.op = "dispatch", !.tx_input = tx_input]
    /\ rc' = [calls |-> <<Activation(TxContext_new(tx_input), pushes + 1)>>,
              frames |-> <<>>, cache |-> 1, tx_result |-> <<>>]
    /\ UNCHANGED <<stack, static_vars, ret, pushes>>
    /\ UNCHANGED <<rc_frame, steps, ext_vars>>

\* line 30: TxContextRef::new(tx_context_rc.clone())
RcNewRef ==
    /\ pc = "running" /\ rc.calls # <<>> /\ Top.line = 30
    /\ rc' = [rc EXCEPT !.calls = WithTopCall([Top EXCEPT !.line = 33,
                                                         !.strong = @ + 1])]
    /\ UNCHANGED <<stack, static_vars, pc, call, ret, pushes>>
    /\ UNCHANGED <<rc_frame, steps, ext_vars>>

\* lines 32-36: get_contract_identifier panics when the recipient holds no
\* contract, else the container is looked up
RcGetContractIdentifier ==
    /\ pc = "running" /\ rc.calls # <<>> /\ Top.line = 33
    /\ LET contract_identifier == get_contract_identifier(tx_cache, Top.tx_context)
       IN  IF contract_identifier = <<>>
           THEN /\ pc' = "aborted"
                /\ call' = [call EXCEPT !.fatal =
                              "Recipient account is not a smart contract "
                              \o address_hex(Top.tx_context.tx_input.to)]
                /\ UNCHANGED rc
           ELSE /\ rc' = [rc EXCEPT !.calls = WithTopCall(
                            [Top EXCEPT !.line = 38,
                                        !.panic_message =
                                            ContractMap[contract_identifier[1]]
                                                .panic_message])]
                /\ UNCHANGED <<pc, call>>
    /\ UNCHANGED <<stack, static_vars, ret, pushes>>
    /\ UNCHANGED <<rc_frame, steps, ext_vars>>

\* lines 38-39: TxContextStack::static_push(tx_context_rc.clone()) and
\* StaticVarStack::static_push()
RcStaticPush ==
    /\ pc = "running" /\ rc.calls # <<>> /\ Top.line = 38
    /\ stack' = static_push(stack, Top.tx_context)
    /\ static_vars' = static_vars + 1
    /\ pushes' = pushes + 1
    /\ rc' = [rc EXCEPT !.calls = WithTopCall([Top EXCEPT !.line = 40,
                                                         !.strong = @ + 1]),
                        !.frames = Append(@, Top.serial)]
    /\ UNCHANGED <<pc, call, ret>>
    /\ UNCHANGED <<rc_frame, steps, ext_vars>>

\* the contract code of the innermost dispatch runs: the selector matched
InEndpoint ==
    /\ pc = "running" /\ rc.calls # <<>> /\ Top.line = 40
    /\ Top.tx_context.tx_input.func_name
          \in ContractMap[get_contract_identifier(tx_cache, Top.tx_context)[1]]
                 .endpoints

\* contract code takes a handle of the current context
\* (TxContextRef::new_from_static clones the handle on top of the stack)
RcTakeHandle ==
    /\ InEndpoint
    /\ steps < MaxSteps
    /\ Len(Top.temps) < MaxHandles
    /\ LET owner == rc.frames[Len(stack)]
       IN  rc' = [rc EXCEPT !.calls =
                     with_handle(WithTopCall([Top EXCEPT !.temps = Append(@, owner)]),
                          owner, 1)]
    /\ UNCHANGED <<stack, static_vars, pc, call, ret, pushes>>
    /\ steps' = steps + 1
    /\ UNCHANGED <<rc_frame, ext_vars>>

\* contract code lets go of the handle it took last
RcDropHandle ==
    /\ InEndpoint
    /\ Top.temps # <<>>
    /\ LET owner == Top.temps[Len(Top.temps)]
       IN  rc' = [rc EXCEPT !.calls =
                     with_handle(WithTopCall([Top EXCEPT
                              !.temps = SubSeq(@, 1, Len(@) - 1)]),
                          owner, -1)]
    /\ UNCHANGED <<stack, static_vars, pc, call, ret, pushes>>
    /\ UNCHANGED <<rc_frame, steps, ext_vars>>

\* contract code makes a nested call: a context for the same cache, which it
\* holds by a handle of its own (blockchain_cache_rc), enters execute_tx_context
RcNestedCall(func_name) ==
    /\ InEndpoint
    /\ steps < MaxSteps
    /\ Len(rc.calls) < MaxDepth
    /\ LET cur == static_peek(stack).tx_input
           tx_context == TxContext_new([from |-> cur.to, to |-> cur.to,
                                        egld_value |-> 0, esdt_values |-> <<>>,
                                        func_name |-> func_name])
       IN  rc' = [rc EXCEPT !.calls = Append(@, Activation(tx_context, pushes + 1)),
                           !.cache = @ + 1]
    /\ UNCHANGED <<stack, static_vars, pc, call, ret, pushes>>
    /\ steps' = steps + 1
    /\ UNCHANGED <<rc_frame, ext_vars>>

\* line 40: execute_contract_instance_endpoint from the moment the selector
\* call ends; the handles contract code still holds go out of scope, by the
\* return or by the unwinding
RcEndpointEnds(outcome) ==
    /\ pc = "running" /\ rc.calls # <<>> /\ Top.line = 40
    /\ IF InEndpoint THEN outcome # Returned(FALSE) ELSE outcome = Returned(FALSE)
    /\ LET e == execute_contract_instance_endpoint(stack, Top.panic_message, outcome)
       IN  /\ ~e.escaped
           /\ stack' = e.stack
           /\ rc' = [rc EXCEPT !.calls =
                        released(WithTopCall([Top EXCEPT !.line = 42,
                                                         !.temps = <<>>,
                                                         !.tx_result = e.tx_result]),
                                 Top.temps)]
    /\ UNCHANGED <<static_vars, pc, call, ret, pushes>>
    /\ UNCHANGED <<rc_frame, steps, ext_vars>>

\* lines 42-43: TxContextStack::static_pop() and StaticVarStack::static_pop();
\* the handle moves from the stack to the local tx_context_rc
RcStaticPop ==
    /\ pc = "running" /\ rc.calls # <<>> /\ Top.line = 42
    /\ LET p == static_pop(stack)
       IN  /\ stack' = p.stack
           /\ rc' = [rc EXCEPT !.calls = WithTopCall([Top EXCEPT !.line = 44]),
                               !.frames = SubSeq(@, 1, Len(p.stack))]
    /\ static_vars' = static_vars - 1
    /\ UNCHANGED <<pc, call, ret, pushes>>
    /\ UNCHANGED <<rc_frame, steps, ext_vars>>

\* lines 44-45: execute_tx_context_rc returns the pair
RcReturn ==
    /\ pc = "running" /\ rc.calls # <<>> /\ Top.line = 44
    /\ rc' = [rc EXCEPT !.calls = WithTopCall(
                 [Top EXCEPT !.line = 22,
                             !.strong = execute_tx_context_rc_returns(@)])]
    /\ UNCHANGED <<stack, static_vars, pc, call, ret, pushes>>
    /\ UNCHANGED <<rc_frame, steps, ext_vars>>

\* line 22: Rc::try_unwrap(tx_context_rc).unwrap(); the pair goes to the entry
\* point, or to the calling contract code, which lets go of the nested context
\* and of its handle of the cache
RcTryUnwrap ==
    /\ pc = "running" /\ rc.calls # <<>> /\ Top.line = 22
    /\ IF Rc_try_unwrap(Top.strong)
       THEN /\ rc' = [rc EXCEPT
                        !.calls = SubSeq(@, 1, Len(@) - 1),
                        !.cache = IF Len(rc.calls) > 1 THEN @ - 1 ELSE @,
                        !.tx_result = IF Len(rc.calls) > 1 THEN @
                                      ELSE <<Top.tx_result>>]
            /\ UNCHANGED <<pc, call>>
       ELSE /\ pc' = "aborted"
            /\ call' = [call EXCEPT !.fatal = ReclaimAborts.fatal]
            /\ UNCHANGED rc
    /\ UNCHANGED <<stack, static_vars, ret, pushes>>
    /\ UNCHANGED <<rc_frame, steps, ext_vars>>

\* the entry point's tx_context.into_blockchain_updates(), and its return
RcIntoBlockchainUpdates ==
    /\ pc = "running" /\ rc.calls = <<>>
    /\ LET o == TxContext_into_blockchain_updates(tx_cache, rc.cache)
       IN  IF o.ok
           THEN /\ pc' = "returned"
                /\ ret' = <<[tx_result |-> rc.tx_result[1],
                             new_address |-> VMAddress_zero,
                             blockchain_updates |->
                                 o.values[1].blockchain_updates]>>
                /\ UNCHANGED call
           ELSE /\ pc' = "aborted"
                /\ call' = [call EXCEPT !.fatal = o.fatal]
                /\ UNCHANGED ret
    /\ UNCHANGED <<stack, static_vars, pushes, rc>>
    /\ UNCHANGED <<rc_frame, steps, ext_vars>>

NextRc ==
    \/ \E tx_input \in RcInputs : RcExecuteTxContext(tx_input)
    \/ RcNewRef
    \/ RcGetContractIdentifier
    \/ RcStaticPush
    \/ RcTakeHandle
    \/ RcDropHandle
    \/ \E func_name \in {"ep", "missing"} : RcNestedCall(func_name)
    \/ \E outcome \in {Returned(TRUE), Returned(FALSE)}
                       \cup {Panicked(payload) : payload \in PanicPayloads} :
          RcEndpointEnds(outcome)
    \/ RcStaticPop
    \/ RcReturn
    \/ RcTryUnwrap
    \/ RcIntoBlockchainUpdates

SpecRc == Init /\ [][NextRc]_vars

----------------------------------------------------------------------------
(* Vocabulary of the properties *)

TheInput == call.tx_input
TheResult == ret[1].tx_result
TheUpdate == ret[1].blockchain_updates

\* the sender can pay the native-coin value of the input
EgldCovered == accounts[TheInput.from].egld_balance >= TheInput.egld_value

\* what the first i token transfers of the input send of token key k
RECURSIVE Sent(_, _, _)
Sent(tx_input, k, i) ==
    IF i = 0 THEN 0
    ELSE LET t == tx_input.esdt_values[i]
         IN  Sent(tx_input, k, i - 1)
             + (IF <<t.token_identifier, t.nonce>> = k THEN t.value ELSE 0)

\* the i-th token transfer cannot be paid once the ones before it are applied
Unpayable(tx_input, i) ==
    LET t == tx_input.esdt_values[i]
        k == <<t.token_identifier, t.nonce>>
        held == accounts[tx_input.from].esdt[k]
    IN  IF tx_input.from = tx_input.to
        THEN t.value > held
        ELSE Sent(tx_input, k, i) > held

\* the index of the first token transfer that fails, 0 when all can be paid
FirstFailing(tx_input) ==
    LET bad == {i \in 1..Len(tx_input.esdt_values) : Unpayable(tx_input, i)}
    IN  IF bad = {} THEN 0 ELSE CHOOSE i \in bad : \A j \in bad : i <= j

\* every entry of the cache equals the committed account
CacheHoldsNoChange ==
    \A a \in DOMAIN tx_cache : a \in DOMAIN accounts /\ tx_cache[a] = accounts[a]

\* no context was pushed and no contract code ran
NothingDispatched ==
    pushes = 0 /\ steps = 0 /\ stack = <<>> /\ static_vars = 0 /\ last_end = <<>>

----------------------------------------------------------------------------
(* C1: in default_execution, when the sender's native-coin balance is lower  *)
(* than the input's value, the call returns at once: the Result has a        *)
(* non-zero status, the Blockchain Update is empty, the cache holds no        *)
(* change and nothing is dispatched.                                          *)
C1_InsufficientEgldShortCircuits ==
    (call.op = "default" /\ ~EgldCovered) =>
        /\ pc = "returned"
        /\ TheResult.result_status # 0
        /\ TheUpdate = BlockchainUpdate_empty
        /\ CacheHoldsNoChange
        /\ NothingDispatched

\* an underfunded call to an existing endpoint of a contract has returned
C1_Witness ==
    /\ call.op = "default" /\ ~EgldCovered /\ pc = "returned"
    /\ TheInput.to = ScA /\ TheInput.func_name = "ep"
    /\ TheInput.esdt_values # <<>>

----------------------------------------------------------------------------
(* C2: default_execution applies the token transfers in list order; at the   *)
(* first one that fails it returns the failure Result with an empty          *)
(* Blockchain Update: the cache then holds the native-coin transfer and      *)
(* exactly the token transfers before the failing one, none of which is in   *)
(* the output, and nothing is dispatched.                                    *)
C2_EsdtFailureShortCircuits ==
    (call.op = "default" /\ EgldCovered /\ FirstFailing(TheInput) > 0) =>
        LET f == FirstFailing(TheInput)
            from == TheInput.from
            to == TheInput.to
            moved(k) == IF from = to THEN 0 ELSE Sent(TheInput, k, f - 1)
            coin == IF from = to THEN 0 ELSE TheInput.egld_value
        IN  /\ pc = "returned"
            /\ TheResult.result_status # 0
            /\ TheResult.result_values = <<>> /\ TheResult.result_logs = <<>>
            /\ TheUpdate = BlockchainUpdate_empty
            /\ NothingDispatched
            /\ \A k \in TokenKeys :
                 /\ with_account(tx_cache, from).esdt[k]
                        = accounts[from].esdt[k] - moved(k)
                 /\ with_account(tx_cache, to).esdt[k]
                        = accounts[to].esdt[k] + moved(k)
            /\ with_account(tx_cache, from).egld_balance
                   = accounts[from].egld_balance - coin
            /\ with_account(tx_cache, to).egld_balance
                   = accounts[to].egld_balance + coin

\* the second token transfer failed after the first and the native coin were moved
C2_Witness ==
    /\ call.op = "default" /\ EgldCovered /\ pc = "returned"
    /\ FirstFailing(TheInput) = 2
    /\ TheInput.egld_value > 0
    /\ TheInput.from # TheInput.to
    /\ TheInput.to = ScA /\ TheInput.func_name = "ep"
    /\ with_account(tx_cache, Alice).esdt[<<"T1", 0>>] # accounts[Alice].esdt[<<"T1", 0>>]

----------------------------------------------------------------------------
\* the number a big-endian byte string stands for
RECURSIVE FromBytesBE(_)
FromBytesBE(b) ==
    IF b = <<>> THEN 0
    ELSE 256 * FromBytesBE(SubSeq(b, 1, Len(b) - 1)) + b[Len(b)]

\* b is the big-endian byte string of n > 0, without leading zero bytes
BigEndianOf(b, n) ==
    /\ Len(b) >= 1
    /\ \A i \in 1..Len(b) : b[i] \in 0..255
    /\ b[1] # 0
    /\ FromBytesBE(b) = n

\* log is the system transfer log of tx_input
IsTransferLog(log, tx_input) ==
    /\ log.endpoint = "transferValueOnly"
    /\ Len(log.topics) = 3
    /\ log.topics[1] = to_vec(tx_input.from)
    /\ log.topics[2] = to_vec(tx_input.to)
    /\ BigEndianOf(log.topics[3], tx_input.egld_value)

\* default_execution has returned for a contract-address sender paying a value
PaidByContract ==
    /\ pc = "returned" /\ call.op = "default" /\ EgldCovered
    /\ is_smart_contract_address(TheInput.from)
    /\ TheInput.egld_value > 0

(* C3 as stated: whenever the native-coin transfer of a default_execution    *)
(* succeeds, with a contract-address sender and an amount above zero, the     *)
(* first log of the returned Result is the system transfer log.               *)
C3_Original ==
    PaidByContract =>
        /\ TheResult.result_logs # <<>>
        /\ IsTransferLog(TheResult.result_logs[1], TheInput)

(* C3, amended: when the native-coin transfer and every token transfer of a  *)
(* default_execution succeed, with a contract-address sender and an amount   *)
(* above zero, the first log of the returned Result is the system transfer   *)
(* log (endpoint "transferValueOnly", topics from, to, amount big-endian),   *)
(* and the logs of the dispatched call follow it in their original order.    *)
C3_TransferLogFirst ==
    (PaidByContract /\ FirstFailing(TheInput) = 0) =>
        /\ TheResult.result_logs # <<>>
        /\ IsTransferLog(TheResult.result_logs[1], TheInput)
        /\ Tail(TheResult.result_logs)
               = (IF pushes > 0 THEN last_end[1].tx_result.result_logs ELSE <<>>)
        /\ (pushes > 0 /\ last_end[1].outcome = Returned(TRUE))
               => Tail(TheResult.result_logs) = last_end[1].written.result_logs

\* a contract paid 258 for a call that wrote two logs and returned
C3_Witness ==
    /\ PaidByContract /\ FirstFailing(TheInput) = 0
    /\ TheInput.egld_value = 258
    /\ TheResult.result_status = 0
    /\ Len(TheResult.result_logs) = 3
    /\ TheResult.result_logs[2].data # TheResult.result_logs[3].data

----------------------------------------------------------------------------
\* all transfers of the input can be paid and the input asks for no dispatch
PlainTransfer ==
    /\ call.op = "default" /\ EgldCovered /\ FirstFailing(TheInput) = 0
    /\ (~is_smart_contract_address(TheInput.to) \/ TheInput.func_name = "")

(* C4: in default_execution, when all transfers succeed and the recipient is *)
(* not a contract address or the endpoint name is empty, nothing is pushed   *)
(* on the Context Stack and no contract code runs; the Result has status 0   *)
(* and no return values, and the Blockchain Update carries the transfers.    *)
C4_PlainTransferNoDispatch ==
    PlainTransfer =>
        LET from == TheInput.from
            to == TheInput.to
            n == Len(TheInput.esdt_values)
            moved(k) == IF from = to THEN 0 ELSE Sent(TheInput, k, n)
            coin == IF from = to THEN 0 ELSE TheInput.egld_value
            after == Applied(TheUpdate)
        IN  /\ pc = "returned"
            /\ NothingDispatched
            /\ TheResult.result_status = 0
            /\ TheResult.result_message = ""
            /\ TheResult.result_values = <<>>
            /\ {from, to} \subseteq DOMAIN TheUpdate
            /\ after[from].egld_balance = accounts[from].egld_balance - coin
            /\ after[to].egld_balance = accounts[to].egld_balance + coin
            /\ \A k \in TokenKeys :
                 /\ after[from].esdt[k] = accounts[from].esdt[k] - moved(k)
                 /\ after[to].esdt[k] = accounts[to].esdt[k] + moved(k)

\* a contract paid a wallet, naming an endpoint, with a token transfer
C4_Witness ==
    /\ PlainTransfer /\ pc = "returned"
    /\ TheInput.from = ScA /\ TheInput.to = Alice
    /\ TheInput.func_name = "ep"
    /\ TheInput.egld_value > 0
    /\ TheInput.esdt_values # <<>>

----------------------------------------------------------------------------
\* default_execution dispatched to an endpoint name the selector does not match
UnmatchedEndpoint ==
    /\ call.op = "default" /\ EgldCovered /\ FirstFailing(TheInput) = 0
    /\ is_smart_contract_address(TheInput.to) /\ TheInput.func_name # ""
    /\ accounts[TheInput.to].contract_path # <<>>
    /\ TheInput.func_name
          \notin ContractMap[accounts[TheInput.to].contract_path[1]].endpoints

(* C5 as stated: every dispatch through default_execution to an endpoint     *)
(* name the selector does not match yields status 1, the message "invalid    *)
(* function (not found)", no return values and no logs, for every sender and *)
(* every native-coin value.                                                  *)
C5_Original ==
    UnmatchedEndpoint =>
        /\ pc = "returned"
        /\ TheResult.result_status = 1
        /\ TheResult.result_message = "invalid function (not found)"
        /\ TheResult.result_values = <<>>
        /\ TheResult.result_logs = <<>>

(* C5, amended: such a dispatch yields status 1, the message "invalid        *)
(* function (not found)" and no return values; the dispatch itself produces  *)
(* no logs, so the Result's logs are empty unless the sender is a contract   *)
(* address and the native-coin value is non-zero, and then the system        *)
(* transfer log is its only log.                                             *)
C5_UnmatchedEndpoint ==
    UnmatchedEndpoint =>
        /\ pc = "returned"
        /\ TheResult.result_status = 1
        /\ TheResult.result_message = "invalid function (not found)"
        /\ TheResult.result_values = <<>>
        /\ pushes = 1 /\ steps = 0
        /\ last_end[1].tx_result.result_logs = <<>>
        /\ IF is_smart_contract_address(TheInput.from) /\ TheInput.egld_value # 0
           THEN /\ Len(TheResult.result_logs) = 1
                /\ IsTransferLog(TheResult.result_logs[1], TheInput)
           ELSE TheResult.result_logs = <<>>

\* a contract paid 258 for a call to an endpoint that does not exist
C5_Witness ==
    /\ UnmatchedEndpoint /\ pc = "returned"
    /\ is_smart_contract_address(TheInput.from)
    /\ TheInput.egld_value = 258
    /\ TheResult.result_status = 1

----------------------------------------------------------------------------
\* the last dispatch that ended, and whether contract code panicked in it
LastEnd == last_end[1]
Panicked_ == last_end # <<>> /\ LastEnd.outcome.kind = "panic"
ThePayload == LastEnd.outcome.payload

(* C6: the Panic Translator classifies in priority order: a TxPanic payload  *)
(* gives its own status and message whatever the diagnostic flag; only a     *)
(* payload that is none is read as text (status 4); any other payload gives  *)
(* status 4 and the message "unknown panic object".                          *)
C6_PanicClassification ==
    Panicked_ =>
        LET r == LastEnd.tx_result
        IN  /\ ThePayload.kind = "TxPanic" =>
                 /\ r.result_status = ThePayload.status
                 /\ r.result_message = ThePayload.message
            /\ ThePayload.kind \in {"String", "str"} =>
                 /\ r.result_status = 4
                 /\ r.result_message
                       \in {"panic occurred: " \o ThePayload.message, "panic occurred"}
            /\ ThePayload.kind \notin {"TxPanic", "String", "str"} =>
                 /\ r.result_status = 4
                 /\ r.result_message = "unknown panic object"

\* a TxPanic with status 10 was translated with the diagnostic flag off
C6_Witness ==
    /\ Panicked_
    /\ ThePayload.kind = "TxPanic" /\ ThePayload.status = 10
    /\ ~LastEnd.panic_message
    /\ LastEnd.tx_result.result_status = 10

(* C7: a dispatched endpoint that panics with a plain text message yields    *)
(* status 4; the message is "panic occurred: " followed by that text when    *)
(* diagnostic detail is enabled, and the fixed "panic occurred" when it is   *)
(* disabled.                                                                 *)
C7_TextPanic ==
    (Panicked_ /\ ThePayload.kind \in {"String", "str"}) =>
        LET r == LastEnd.tx_result
        IN  /\ r.result_status = 4
            /\ LastEnd.panic_message =>
                 /\ r.result_message = "panic occurred: " \o ThePayload.message
                 /\ r.result_message
                       = from_panic_string(ThePayload.message).result_message
            /\ ~LastEnd.panic_message => r.result_message = "panic occurred"

\* a text panic was translated with the diagnostic flag on
C7_Witness ==
    /\ Panicked_ /\ ThePayload.kind = "String" /\ ThePayload.message = "boom"
    /\ LastEnd.panic_message
    /\ LastEnd.tx_result.result_message = "panic occurred: boom"

\* a text panic was translated with the diagnostic flag off
C7_WitnessDisabled ==
    /\ Panicked_ /\ ThePayload.kind = "str" /\ ThePayload.message = "bang"
    /\ ~LastEnd.panic_message
    /\ LastEnd.tx_result.result_message = "panic occurred"

(* C8: when a dispatched endpoint panics after appending return values or    *)
(* logs to its in-progress Result, the Result the dispatch returns holds the *)
(* translated status and message only: no return value and no log.           *)
C8_PanicDiscardsWrites ==
    Panicked_ =>
        /\ LastEnd.tx_result.result_values = <<>>
        /\ LastEnd.tx_result.result_logs = <<>>
        /\ (LastEnd.depth = 1 /\ pc = "returned") =>
             /\ TheResult.result_status = LastEnd.tx_result.result_status
             /\ TheResult.result_message = LastEnd.tx_result.result_message
             /\ TheResult.result_values = <<>>
             /\ TheResult.result_logs = call.tv_log

\* the top-level endpoint had written a value and a log when it panicked
C8_Witness ==
    /\ Panicked_ /\ LastEnd.depth = 1 /\ pc = "returned"
    /\ LastEnd.written.result_values # <<>>
    /\ LastEnd.written.result_logs # <<>>
    /\ TheResult.result_status = 4

(* C9: every panic of contract code in a dispatch is caught: the dispatch    *)
(* returns a Result to its caller and no panic leaves default_execution or   *)
(* deploy_contract; the only fatal aborts come before any dispatch.          *)
C9_PanicsAreCaught ==
    /\ call.fatal # "panic escaped"
    /\ pc = "aborted" => last_end = <<>>
    /\ Panicked_ =>
         /\ ~LastEnd.escaped
         /\ LastEnd.tx_result.result_status # 0
         /\ LastEnd.depth = 1 => (pc = "returned" /\ ret # <<>>)
         /\ LastEnd.depth > 1 => pc \in {"running", "returned"}

\* the initializer of a deployed contract panicked with an unknown payload
C9_Witness ==
    /\ Panicked_ /\ ThePayload.kind = "other"
    /\ call.op = "deploy" /\ LastEnd.depth = 1
    /\ pc = "returned" /\ TheResult.result_status = 4

(* C10: when a nested dispatch ends, by return or by panic, the context that *)
(* was active before its push is the top of the Context Stack again, and its *)
(* scratch space is what it was when the inner context was pushed; the       *)
(* frames below are untouched.                                               *)
C10_PopRestoresFrame ==
    [][/\ (/\ Len(stack) >= 2
           /\ \/ Len(stack') < Len(stack)
              \/ (last_end' # last_end /\ last_end' # <<>>
                  /\ last_end'[1].depth = Len(stack))) =>
              LET n == Len(stack) - 1
              IN  /\ Len(stack') = n
                  /\ SubSeq(stack', 1, n) = SubSeq(stack, 1, n)
                  /\ stack'[n].managed_types = saved_scratch[n + 1]
       /\ (/\ Len(stack) >= 1
           /\ last_end' # last_end /\ last_end' # <<>>
           /\ last_end'[1].depth = Len(stack) + 1) =>
              stack' = stack
      ]_vars

\* an inner call used its scratch space and panicked; the outer one is back on top
C10_Witness ==
    /\ Panicked_ /\ LastEnd.depth = 2
    /\ LastEnd.tx_context.managed_types # <<>>
    /\ pc = "running" /\ Len(stack) = 1
    /\ stack[1].managed_types # <<>>
    /\ stack[1].managed_types # LastEnd.tx_context.managed_types

----------------------------------------------------------------------------
(* C11: every context pushed on the Context Stack starts with an empty       *)
(* scratch space and an empty in-progress Result (status 0, no values, no    *)
(* logs), whatever the enclosing or an earlier dispatch created.             *)
C11_PushedContextIsClean ==
    [][pushes' > pushes =>
         IF Len(stack') > Len(stack)
         THEN /\ stack'[Len(stack')].managed_types = <<>>
              /\ stack'[Len(stack')].tx_result = TxResult_empty
         ELSE /\ last_end' # <<>>
              /\ last_end'[1].written = TxResult_empty
              /\ last_end'[1].tx_context.managed_types = <<>>
      ]_vars

\* a nested context is on top, clean, while the enclosing one holds a handle
\* and a return value
C11_Witness ==
    /\ Len(stack) = 2
    /\ stack[2].managed_types = <<>>
    /\ stack[2].tx_result = TxResult_empty
    /\ stack[1].managed_types # <<>>
    /\ stack[1].tx_result.result_values # <<>>

\* a second nested context is on top, clean, after a first one used its scratch
C11_WitnessSibling ==
    /\ Len(stack) = 2
    /\ stack[2].managed_types = <<>>
    /\ last_end # <<>> /\ LastEnd.depth = 2
    /\ LastEnd.tx_context.managed_types # <<>>

----------------------------------------------------------------------------
\* the last API call or reclaim made on the context, and the dispatch's Result
ExtLast == ext_last[1]
ExtResult == ext_ret[1]
StoreOps == {"storage_store", "storage_store_bytes32", "storage_store_big_uint",
             "storage_store_big_int", "storage_store_i64"}
ReclaimOps == {"into_output", "into_blockchain_updates", "into_results"}
Reserved(key) == Len(key) >= 6 /\ SubSeq(key, 1, 6) = <<69, 76, 82, 79, 78, 68>>

(* C12: reclaiming a context or its cache (into_blockchain_updates,          *)
(* into_results, into_output) while another holder of the shared handle      *)
(* exists is a fatal abort: nothing is returned, neither a Result nor a      *)
(* Blockchain Update; with a single holder the reclaim returns.              *)
C12_ReclaimWithHolders ==
    (ext_last # <<>> /\ ExtLast.op \in ReclaimOps) =>
        /\ ExtLast.strong > 1 =>
             /\ ext_pc = "aborted"
             /\ ExtLast.returned = <<>>
             /\ ExtLast.fatal # ""
        /\ ExtLast.strong = 1 =>
             /\ ext_pc = "reclaimed"
             /\ ExtLast.returned # <<>>

\* a cache holding a write was reclaimed while a second handle to it existed
C12_Witness ==
    /\ ext_last # <<>> /\ ExtLast.op = "into_blockchain_updates"
    /\ ExtLast.strong = 2
    /\ ExtLast.before # <<>>
    /\ ext_pc = "aborted"

(* C13: every storage write (storage_store and the typed stores built on it) *)
(* whose key begins with the reserved marker fails with a status-10 panic    *)
(* and leaves the storage mapping as it was; a key that does not begin with  *)
(* the marker is written, the other keys staying as they were.               *)
C13_ReservedKeyWrite ==
    (ext_last # <<>> /\ ExtLast.op \in StoreOps) =>
        LET key == ExtLast.input.key
            old == ExtLast.before.contract_storage
            new == ext_shared.contract_storage
        IN  IF Reserved(key)
            THEN /\ ExtLast.panic # <<>>
                 /\ ExtLast.panic[1].kind = "TxPanic"
                 /\ ExtLast.panic[1].status = 10
                 /\ new = old
                 /\ ext_pc # "running"
                 /\ ExtResult.result_status = 10
            ELSE /\ ExtLast.panic = <<>>
                 /\ DOMAIN new = DOMAIN old \cup {key}
                 /\ \A k \in DOMAIN old : k # key => new[k] = old[k]
                 /\ ExtLast.op \in {"storage_store", "storage_store_bytes32"} =>
                      new[key] = ExtLast.input.value

\* a typed store under a reserved key failed on a storage that held an entry
C13_Witness ==
    /\ ext_last # <<>> /\ ExtLast.op = "storage_store_i64"
    /\ Reserved(ExtLast.input.key)
    /\ ExtLast.before.contract_storage # <<>>
    /\ ext_shared = ExtLast.before
    /\ ext_pc = "ended" /\ ExtResult.result_status = 10

(* C14: for a non-reserved key, storage_store_big_uint(key, v) followed by   *)
(* storage_load_big_uint(key) returns v; zero is stored as the empty byte    *)
(* string (and 258 as the bytes 1, 2); loading a key that was never written  *)
(* returns zero.                                                             *)
C14_BigUintRoundTrip ==
    [][(ext_last' # ext_last /\ ext_last' # <<>>) =>
         LET now == ext_last'[1]
             key == now.input.key
         IN  /\ (now.op = "storage_store_big_uint" /\ ~Reserved(key)) =>
                  /\ now.input.value = <<>> => ext_shared'.contract_storage[key] = <<>>
                  /\ now.input.value = <<2, 1>> =>
                       ext_shared'.contract_storage[key] = <<1, 2>>
             /\ (now.op = "storage_load_big_uint"
                 /\ key \notin DOMAIN now.before.contract_storage) =>
                  now.returned = << <<>> >>
             /\ (/\ now.op = "storage_load_big_uint"
                 /\ ext_last # <<>>
                 /\ ExtLast.op = "storage_store_big_uint"
                 /\ ExtLast.input.key = key
                 /\ ~Reserved(key)) =>
                  now.returned = <<ExtLast.input.value>>
      ]_vars

\* 258 was loaded back from a non-reserved key
C14_Witness ==
    /\ ext_last # <<>> /\ ExtLast.op = "storage_load_big_uint"
    /\ ~Reserved(ExtLast.input.key)
    /\ ExtLast.input.key \in DOMAIN ExtLast.before.contract_storage
    /\ ExtLast.before.contract_storage[ExtLast.input.key] = <<1, 2>>
    /\ ExtLast.returned = << <<2, 1>> >>

\* zero was loaded from a key that was never written
C14_WitnessUnwritten ==
    /\ ext_last # <<>> /\ ExtLast.op = "storage_load_big_uint"
    /\ ExtLast.before.contract_storage = <<>>
    /\ ExtLast.returned = << <<>> >>

(* C15: storage_load_bytes32 of a key that was never written returns 32 zero *)
(* bytes; storage_store_bytes32 followed by storage_load_bytes32 returns the *)
(* stored 32 bytes; a stored value of length n <= 32 is returned             *)
(* right-aligned at offset 32 - n with zeros on the left.                    *)
C15_Bytes32RoundTrip ==
    [][(ext_last' # ext_last /\ ext_last' # <<>>
        /\ ext_last'[1].op = "storage_load_bytes32") =>
         LET now == ext_last'[1]
             key == now.input.key
             old == now.before.contract_storage
         IN  /\ key \notin DOMAIN old =>
                  now.returned = <<[i \in 1..32 |-> 0]>>
             /\ (/\ ext_last # <<>>
                 /\ ExtLast.op = "storage_store_bytes32"
                 /\ ExtLast.input.key = key
                 /\ ~Reserved(key)) =>
                  now.returned = <<ExtLast.input.value>>
             /\ (key \in DOMAIN old /\ Len(old[key]) <= 32) =>
                  /\ now.returned # <<>>
                  /\ \A i \in 1..32 :
                       now.returned[1][i] =
                          IF i <= 32 - Len(old[key]) THEN 0
                          ELSE old[key][i - (32 - Len(old[key]))]
      ]_vars

\* a stored value of two bytes was loaded as 32 bytes, right-aligned
C15_Witness ==
    /\ ext_last # <<>> /\ ExtLast.op = "storage_load_bytes32"
    /\ ExtLast.input.key \in DOMAIN ExtLast.before.contract_storage
    /\ ExtLast.before.contract_storage[ExtLast.input.key] = <<7, 0>>
    /\ ExtLast.returned # <<>>
    /\ ExtLast.returned[1][31] = 7 /\ ExtLast.returned[1][1] = 0

\* the 32 stored bytes were loaded back
C15_WitnessFull ==
    /\ ext_last # <<>> /\ ExtLast.op = "storage_load_bytes32"
    /\ ExtLast.returned = <<[i \in 1..32 |-> i]>>

(* C16 as stated: inside a dispatched endpoint, reading an argument at an    *)
(* index outside the argument list, and reading as i64 an argument that does *)
(* not fit in 64 signed bits, each end the dispatch with a Result of status  *)
(* 10.                                                                       *)
C16_Original ==
    (/\ ext_last # <<>>
     /\ ExtLast.op \in {"get_argument_vec_u8", "get_argument_i64"}
     /\ \/ ExtLast.input.index < 0
        \/ ExtLast.input.index >= Len(ext_ctx.args)
        \/ (ExtLast.op = "get_argument_i64" /\ ExtLast.input.index = 1)) =>
        /\ ext_pc # "running"
        /\ ExtResult.result_status = 10

\* what the code does: an i64 that does not fit gives status 10, an index
\* outside the list gives a text panic, hence status 4
C16_ArgumentFailures ==
    (ext_last # <<>> /\ ExtLast.op \in {"get_argument_vec_u8", "get_argument_i64"}) =>
        IF ExtLast.input.index < 0 \/ ExtLast.input.index >= Len(ext_ctx.args)
        THEN /\ ext_pc # "running"
             /\ ExtResult.result_status = 4
             /\ ExtResult.result_message \in {"panic occurred: Tx arg index out of range",
                                              "panic occurred"}
        ELSE IF ExtLast.op = "get_argument_i64" /\ ExtLast.input.index = 1
        THEN /\ ext_pc # "running"
             /\ ExtResult.result_status = 10
             /\ ExtResult.result_message = "argument out of range"
        ELSE ExtLast.panic = <<>> /\ ExtLast.returned # <<>>

\* an argument index past the list ended the dispatch with status 4
C16_Witness ==
    /\ ext_last # <<>> /\ ExtLast.op = "get_argument_vec_u8"
    /\ ext_ctx.args # <<>>
    /\ ExtLast.input.index = Len(ext_ctx.args)
    /\ ext_pc = "ended" /\ ExtResult.result_status = 4

----------------------------------------------------------------------------
\* the address deploy_contract derives for the input, on the committed store
DerivedAddress == get_new_address(TheInput.from, accounts[TheInput.from].nonce)

\* a deploy_contract found its derived address occupied
DeployCollided ==
    /\ call.op = "deploy" /\ pc = "aborted"
    /\ call.fatal = "Account already exists at deploy address."

(* C18 as stated: a deploy_contract whose derived address is already         *)
(* occupied fails before any state is touched: at the failure the cache      *)
(* holds no change, the deployer's balance has not been debited and no       *)
(* account has been inserted or overwritten.                                 *)
C18_Original ==
    DeployCollided => (CacheHoldsNoChange /\ NothingDispatched)

(* C18: a deploy_contract whose derived address is already occupied aborts   *)
(* before any account is inserted or overwritten and before anything is      *)
(* dispatched, returning nothing; the only change the cache holds at that    *)
(* moment is the debit of the input's value from the deployer, made up front.*)
C18_CollisionAfterDebit ==
    DeployCollided =>
        /\ DerivedAddress \in DOMAIN accounts
        /\ NothingDispatched
        /\ ret = <<>>
        /\ DerivedAddress \notin DOMAIN tx_cache
        /\ \A a \in DOMAIN tx_cache :
             /\ a = TheInput.from
             /\ tx_cache[a] =
                  [accounts[a] EXCEPT !.egld_balance = @ - TheInput.egld_value]

\* the deployer's debit of 258 is in the cache when the collision aborts
C18_Witness ==
    /\ DeployCollided
    /\ TheInput.egld_value = 258
    /\ TheInput.from \in DOMAIN tx_cache
    /\ tx_cache[TheInput.from].egld_balance
          = accounts[TheInput.from].egld_balance - 258

(* C19 as stated: both ledger-level failures, insufficient balance for a     *)
(* transfer and a duplicate account at a deploy address, short-circuit       *)
(* before dispatch and come back as a Result with non-zero status together   *)
(* with an empty Blockchain Update.                                          *)
C19_Original ==
    /\ (call.op \in {"default", "deploy"} /\ ~EgldCovered) =>
         /\ pc = "returned"
         /\ TheResult.result_status # 0
         /\ TheUpdate = <<>>
         /\ NothingDispatched
    /\ (call.op = "deploy" /\ EgldCovered /\ DerivedAddress \in DOMAIN accounts) =>
         /\ pc = "returned"
         /\ TheResult.result_status # 0
         /\ TheUpdate = <<>>
         /\ NothingDispatched

\* a duplicate account at the deploy address aborted deploy_contract: no
\* Result and no Blockchain Update came back
C19_Witness ==
    /\ call.op = "deploy" /\ EgldCovered
    /\ DerivedAddress \in DOMAIN accounts
    /\ pc = "aborted" /\ ret = <<>>

(* C20: when deploy_contract has enough balance and the initializer panics,  *)
(* the returned Result has the failure status and the returned Blockchain    *)
(* Update still contains the new account (nonce 0, the given contract        *)
(* reference, owner = deployer) holding the transferred value, with the      *)
(* deployer debited by the same amount.                                      *)
C20_InitPanicKeepsAccount ==
    (call.op = "deploy" /\ pc = "returned" /\ Panicked_ /\ LastEnd.depth = 1) =>
        LET from == TheInput.from
            value == TheInput.egld_value
            new == ret[1].new_address
        IN  /\ TheResult.result_status # 0
            /\ TheResult.result_status = LastEnd.tx_result.result_status
            /\ new = DerivedAddress
            /\ new \in DOMAIN TheUpdate
            /\ TheUpdate[new].address = new
            /\ TheUpdate[new].nonce = 0
            /\ TheUpdate[new].contract_path = call.contract_path
            /\ TheUpdate[new].contract_owner = <<from>>
            /\ TheUpdate[new].storage = <<>>
            /\ TheUpdate[new].egld_balance = value
            /\ Applied(TheUpdate)[from].egld_balance
                  = accounts[from].egld_balance - value
            /\ \A a \in DOMAIN TheUpdate : a \in {from, new}

\* a deploy that sent 258 came back with a failure status and the new account
C20_Witness ==
    /\ call.op = "deploy" /\ pc = "returned" /\ Panicked_ /\ LastEnd.depth = 1
    /\ TheInput.egld_value = 258
    /\ TheResult.result_status = 4
    /\ ret[1].new_address \in DOMAIN TheUpdate
    /\ TheUpdate[ret[1].new_address].egld_balance = 258

----------------------------------------------------------------------------
(* C17: get_new_address is a function of the creator and its current nonce   *)
(* only, so when a creator's deploy_contract follows another of the same     *)
(* creator with a higher nonce, the two derived addresses differ and the     *)
(* second does not meet the account created by the first.                    *)
C17_SequentialDeploysDiffer ==
    [][(/\ pc = "idle" /\ pc' # "idle"
        /\ call.op = "deploy" /\ call'.op = "deploy"
        /\ call'.tx_input.from = call.tx_input.from
        /\ call'.creator_nonce > call.creator_nonce) =>
         LET creator == call.tx_input.from
             first == get_new_address(creator, call.creator_nonce)
             second == get_new_address(creator, call'.creator_nonce)
         IN  /\ first # second
             /\ (ret # <<>> /\ ret[1].new_address # VMAddress_zero) =>
                  /\ ret[1].new_address = first
                  /\ second # ret[1].new_address
             /\ (pc' = "returned" /\ ret'[1].new_address # VMAddress_zero) =>
                  /\ ret'[1].new_address = second
                  /\ ret'[1].new_address # first
             /\ pc' = "aborted" => (second \in DOMAIN accounts /\ second # first)
      ]_vars

\* a second deploy of Alice, at nonce 1, returned its own address while the
\* account of her first deploy, at nonce 0, is in the store
C17_Witness ==
    /\ pc = "returned" /\ call.op = "deploy"
    /\ call.tx_input.from = Alice /\ call.creator_nonce = 1
    /\ accounts[Alice].egld_balance = 1
    /\ get_new_address(Alice, 0) \in DOMAIN accounts
    /\ ret[1].new_address = get_new_address(Alice, 1)
    /\ ret[1].tx_result.result_status = 0

----------------------------------------------------------------------------
(* C21: when the deployer's balance is lower than the native-coin value of   *)
(* a deploy_contract input, the call returns the insufficient-funds Result   *)
(* with an empty Blockchain Update and the zero address: no account is       *)
(* created, the initializer is not dispatched and the Context Stack is not   *)
(* touched.                                                                  *)
C21_UnderfundedDeploy ==
    (call.op = "deploy" /\ ~EgldCovered) =>
        /\ pc = "returned"
        /\ TheResult = from_panic_obj(
                         subtract_egld_balance(<<>>, TheInput.from,
                                               TheInput.egld_value).err)
        /\ TheResult.result_status # 0
        /\ TheResult.result_values = <<>>
        /\ TheResult.result_logs = <<>>
        /\ TheUpdate = BlockchainUpdate_empty
        /\ ret[1].new_address = VMAddress_zero
        /\ DerivedAddress \notin DOMAIN tx_cache
        /\ CacheHoldsNoChange
        /\ NothingDispatched

\* Alice, who holds 1, deployed with a value of 258 and the call has returned
C21_Witness ==
    /\ call.op = "deploy" /\ ~EgldCovered /\ pc = "returned"
    /\ TheInput.from = Alice /\ TheInput.egld_value = 258
    /\ accounts[Alice].egld_balance = 1
    /\ DerivedAddress \notin DOMAIN accounts

----------------------------------------------------------------------------
(* C22 as stated: every Result of a dispatch has a status in {0, 1, 4, 10}:  *)
(* 0 only on success, 1 only for endpoint not found, 4 for contract-authored *)
(* failures and panics, 10 for reserved-key writes and bad arguments.        *)
C22_Original ==
    (ext_pc = "ended" /\ ext_ret # <<>> /\ ext_last # <<>>) =>
        /\ ExtResult.result_status \in {0, 1, 4, 10}
        /\ ExtResult.result_status = 0 => ExtLast.panic = <<>>
        /\ ExtResult.result_status # 1
        /\ (ExtLast.panic # <<>> /\ ExtLast.op \in StoreOps
              /\ Reserved(ExtLast.input.key)) =>
             ExtResult.result_status = 10
        /\ (ExtLast.panic # <<>>
              /\ ExtLast.op \in {"get_argument_vec_u8", "get_argument_i64"}) =>
             ExtResult.result_status = 10

\* what the code does, on the Results the entry points return: the status is
\* in {0, 1, 4, 10}; 0 only when no transfer failed and the dispatch, if any,
\* returned; 1 only when the selector did not match; a TxPanic payload keeps
\* its status and every other panic gives 4; 10 only for a failed transfer or
\* a TxPanic of status 10
C22_ClosedTaxonomy ==
    pc = "returned" =>
        LET status == TheResult.result_status
            ledger_failure ==
                \/ ~EgldCovered
                \/ call.op = "default" /\ FirstFailing(TheInput) # 0
        IN  /\ status \in {0, 1, 4, 10}
            /\ status = 0 =>
                 /\ ~ledger_failure
                 /\ last_end # <<>> => LastEnd.outcome = Returned(TRUE)
            /\ status = 1 => (last_end # <<>> /\ LastEnd.outcome = Returned(FALSE))
            /\ (Panicked_ /\ ThePayload.kind = "TxPanic") => status = ThePayload.status
            /\ (Panicked_ /\ ThePayload.kind # "TxPanic") => status = 4
            /\ status = 10 =>
                 \/ ledger_failure
                 \/ Panicked_ /\ ThePayload.kind = "TxPanic" /\ ThePayload.status = 10

\* reading an i64 argument past the end of the list ended the dispatch with
\* status 4
C22_Witness ==
    /\ ext_pc = "ended" /\ ext_ret # <<>> /\ ext_last # <<>>
    /\ ExtLast.op = "get_argument_i64"
    /\ ExtLast.input.index >= Len(ext_ctx.args)
    /\ ExtLast.panic # <<>>
    /\ ExtResult.result_status = 4

----------------------------------------------------------------------------
(* C23: throughout default_execution and deploy_contract, on every path      *)
(* (success, ledger-level failure, panic in dispatch), the committed Account *)
(* Store is never modified: every balance, storage and account-creation      *)
(* write lands in the Transaction Cache only, and reaches the caller only as *)
(* the returned Blockchain Update, which is the cache or is empty.           *)
C23_StoreNeverModified ==
    [][/\ accounts' = accounts
       /\ pc' = "returned" =>
            ret'[1].blockchain_updates \in {BlockchainUpdate_empty, tx_cache'}
      ]_vars

\* a deploy has returned: the cache holds the debit of the deployer, the new
\* account and a storage write of its initializer; the store holds none of them
C23_Witness ==
    /\ pc = "returned" /\ call.op = "deploy"
    /\ TheInput.egld_value = 258
    /\ ret[1].new_address \notin DOMAIN accounts
    /\ ret[1].new_address \in DOMAIN tx_cache
    /\ tx_cache[ret[1].new_address].storage # <<>>
    /\ tx_cache[TheInput.from].egld_balance
         = accounts[TheInput.from].egld_balance - 258
    /\ TheUpdate = tx_cache

\* a call that panicked after a storage write has returned; the store still
\* holds the recipient's empty storage
C23_WitnessPanic ==
    /\ pc = "returned" /\ call.op = "default" /\ Panicked_
    /\ tx_cache[TheInput.to].storage # <<>>
    /\ accounts[TheInput.to].storage = <<>>

----------------------------------------------------------------------------
(* C24: when a dispatched endpoint panics after the transfers of             *)
(* default_execution have been applied, the returned pair is the failure     *)
(* Result together with a non-empty Blockchain Update that still contains    *)
(* the native-coin and token transfers and every cache write the contract    *)
(* made before the panic; no step of a dispatch, a panic of an inner call    *)
(* included, takes a write out of the cache.                                 *)
C24_NoRollbackOnPanic ==
    [][/\ pc = "running" =>
            \A a \in DOMAIN tx_cache :
                /\ a \in DOMAIN tx_cache'
                /\ \A k \in DOMAIN tx_cache[a].storage :
                      /\ k \in DOMAIN tx_cache'[a].storage
                      /\ tx_cache'[a].storage[k] = tx_cache[a].storage[k]
       /\ (/\ pc = "running" /\ pc' = "returned"
           /\ call.op = "default"
           /\ last_end'[1].outcome.kind = "panic") =>
            LET from == call.tx_input.from
                to == call.tx_input.to
                value == call.tx_input.egld_value
                sent(k) == Sent(call.tx_input, k, Len(call.tx_input.esdt_values))
                update == ret'[1].blockchain_updates
            IN  /\ ret'[1].tx_result.result_status # 0
                /\ update # BlockchainUpdate_empty
                /\ update = tx_cache
                /\ from \in DOMAIN update /\ to \in DOMAIN update
                /\ IF from = to
                   THEN /\ update[to].egld_balance = accounts[to].egld_balance
                        /\ update[to].esdt = accounts[to].esdt
                   ELSE /\ update[from].egld_balance
                             = accounts[from].egld_balance - value
                        /\ update[to].egld_balance
                             = accounts[to].egld_balance + value
                        /\ \A k \in TokenKeys :
                              /\ update[from].esdt[k] = accounts[from].esdt[k] - sent(k)
                              /\ update[to].esdt[k] = accounts[to].esdt[k] + sent(k)
      ]_vars

\* a call that moved 258 and a token to a contract panicked after two storage
\* writes: the update holds the transfers and both writes
C24_Witness ==
    /\ pc = "returned" /\ call.op = "default"
    /\ Panicked_ /\ LastEnd.depth = 1
    /\ TheResult.result_status = 4
    /\ TheInput.from # TheInput.to
    /\ TheInput.egld_value = 258 /\ TheInput.esdt_values # <<>>
    /\ TheUpdate[TheInput.to].egld_balance = accounts[TheInput.to].egld_balance + 258
    /\ Cardinality(DOMAIN TheUpdate[TheInput.to].storage) = 2

----------------------------------------------------------------------------
\* default_execution reaches the dispatch with a recipient that has a
\* contract-shaped address and no contract reference
NonContractRecipient ==
    /\ call.op = "default"
    /\ EgldCovered /\ FirstFailing(TheInput) = 0
    /\ is_smart_contract_address(TheInput.to)
    /\ TheInput.func_name # ""
    /\ accounts[TheInput.to].contract_path = <<>>

(* C27: dispatching to a recipient account that has no deployed contract     *)
(* reference aborts fatally with a diagnostic naming the address instead of  *)
(* returning a Result, and it aborts before the context is pushed, so the    *)
(* Context Stack is left exactly as it was; default_execution reaches this   *)
(* when the recipient has a contract-shaped address, a non-empty endpoint    *)
(* name and no contract reference, and aborts for no other reason.           *)
C27_NonContractRecipientAborts ==
    /\ NonContractRecipient =>
         /\ pc = "aborted"
         /\ ret = <<>>
         /\ call.fatal = "Recipient account is not a smart contract "
                           \o address_hex(TheInput.to)
         /\ \A a \in DOMAIN accounts \ {TheInput.to} :
               call.fatal # "Recipient account is not a smart contract "
                              \o address_hex(a)
         /\ NothingDispatched
    /\ (call.op = "default" /\ pc = "aborted") => NonContractRecipient

\* a call of endpoint "ep" on ScB, which holds no contract, sent 258 and aborted
C27_Witness ==
    /\ NonContractRecipient /\ pc = "aborted"
    /\ TheInput.to = ScB /\ TheInput.func_name = "ep"
    /\ TheInput.egld_value = 258
    /\ call.fatal = "Recipient account is not a smart contract "
          \o "0x0000000000000000000000000000000000000000000000000000000000000003"

----------------------------------------------------------------------------
\* the sum of the native-coin balances of a store
RECURSIVE TotalEgld(_, _)
TotalEgld(store, addresses) ==
    IF addresses = {} THEN 0
    ELSE LET a == CHOOSE x \in addresses : TRUE
         IN  store[a].egld_balance + TotalEgld(store, addresses \ {a})

(* C28: the engine's own steps conserve native coin: when default_execution  *)
(* or deploy_contract returns and contract code moved no balance, the sum of *)
(* the balances of the store with the returned update applied equals the sum *)
(* before the call; when the update is not empty the sender is debited       *)
(* exactly the input's value and the recipient, or the newly deployed        *)
(* account, is credited exactly that value (a sender that is its own         *)
(* recipient keeps its balance), and no other balance changes.               *)
C28_EgldConserved ==
    pc = "returned" =>
        LET after == Applied(TheUpdate)
            from == TheInput.from
            to == IF call.op = "deploy" THEN ret[1].new_address ELSE TheInput.to
            value == TheInput.egld_value
            before(a) == IF a \in DOMAIN accounts THEN accounts[a].egld_balance ELSE 0
        IN  /\ TotalEgld(after, DOMAIN after) = TotalEgld(accounts, DOMAIN accounts)
            /\ TheUpdate = BlockchainUpdate_empty => after = accounts
            /\ TheUpdate # BlockchainUpdate_empty =>
                 /\ from \in DOMAIN after /\ to \in DOMAIN after
                 /\ IF from = to
                    THEN after[from].egld_balance = before(from)
                    ELSE /\ after[from].egld_balance = before(from) - value
                         /\ after[to].egld_balance = before(to) + value
                 /\ \A a \in DOMAIN after \ {from, to} :
                       after[a].egld_balance = before(a)

\* ScA sent 258 to itself, the call returned an update and its balance is 300
C28_Witness ==
    /\ pc = "returned" /\ call.op = "default"
    /\ TheInput.from = ScA /\ TheInput.to = ScA
    /\ TheInput.egld_value = 258
    /\ TheUpdate # BlockchainUpdate_empty
    /\ TheUpdate[ScA].egld_balance = 300

\* a deploy credited the new account with the 258 its deployer was debited
C28_WitnessDeploy ==
    /\ pc = "returned" /\ call.op = "deploy"
    /\ TheInput.egld_value = 258
    /\ TheUpdate # BlockchainUpdate_empty
    /\ TheUpdate[ret[1].new_address].egld_balance = 258
    /\ TheUpdate[TheInput.from].egld_balance
          = accounts[TheInput.from].egld_balance - 258

----------------------------------------------------------------------------
(* C25: after every dispatch, whether it succeeded, hit endpoint-not-found   *)
(* or panicked, and whatever nested dispatches ran inside it, the Context    *)
(* Stack and the static-variable stack are back at the depth they had before *)
(* the dispatch and the dispatched context has exactly one holder, so the    *)
(* reclaim in execute_tx_context never aborts; when the outermost dispatch   *)
(* is over the cache has one holder too, so into_blockchain_updates never    *)
(* aborts.                                                                   *)
C25_OneHolderAfterDispatch ==
    /\ \A i \in 1..Len(rc.calls) :
          rc.calls[i].line = 22 =>
              /\ rc.calls[i].strong = 1
              /\ Len(stack) = rc.calls[i].depth
              /\ static_vars = rc.calls[i].static_depth
    /\ (pc = "running" /\ rc.calls = <<>>) =>
          /\ rc.cache = 1
          /\ stack = <<>> /\ static_vars = 0
    /\ (call.op = "dispatch" /\ pc = "aborted") =>
          /\ call.fatal # ReclaimAborts.fatal
          /\ rc.calls # <<>> /\ Top.line = 33
    /\ (call.op = "dispatch" /\ pc = "returned") =>
          /\ rc.calls = <<>> /\ rc.cache = 1
          /\ stack = <<>> /\ static_vars = 0

\* a dispatch that made a nested call and then panicked is back from
\* execute_tx_context_rc, about to be reclaimed
C25_Witness ==
    /\ pc = "running" /\ Len(rc.calls) = 1
    /\ Top.line = 22
    /\ pushes = 2
    /\ Top.tx_result.result_status = 4

\* a nested dispatch that did not match is about to be reclaimed while the
\* contract code that called it holds a handle of its own context
C25_WitnessNested ==
    /\ pc = "running" /\ Len(rc.calls) = 2
    /\ Top.line = 22
    /\ Top.tx_result.result_status = 1
    /\ rc.calls[1].temps # <<>>
    /\ rc.cache = 2

----------------------------------------------------------------------------
(* C26: nested calls are strictly last-in-first-out: while an inner dispatch *)
(* is in progress every outer one is suspended inside its endpoint, and at   *)
(* the moment a dispatch's outcome is written and its Result is extracted    *)
(* from the context on top of the stack, that context is the one pushed for  *)
(* this very dispatch, and no other frame is touched.                        *)
C26_LastInFirstOut ==
    [][LET n == Len(rc.calls)
       IN  /\ \A i \in 1..(n - 1) : rc.calls[i].line = 40
           /\ (/\ n > 0 /\ Len(rc'.calls) = n
               /\ rc.calls[n].line = 40 /\ rc'.calls[n].line = 42) =>
                 /\ Len(stack) = rc.calls[n].depth + 1
                 /\ Len(rc.frames) = Len(stack)
                 /\ rc.frames[Len(stack)] = rc.calls[n].serial
                 /\ static_peek(stack).tx_input = rc.calls[n].tx_context.tx_input
                 /\ Len(stack') = Len(stack)
                 /\ \A i \in 1..(Len(stack) - 1) : stack'[i] = stack[i]
                 /\ static_peek(stack').tx_result = TxResult_empty
                 /\ rc'.calls[n].tx_result.result_status # 0 =>
                       rc'.calls[n].tx_result.result_values = <<>>
      ]_vars

\* an outer dispatch has had its outcome written, after an inner dispatch of
\* its own ran to completion and was popped
C26_Witness ==
    /\ pc = "running" /\ Len(rc.calls) = 1
    /\ Top.line = 42
    /\ pushes = 2
    /\ Len(stack) = 1 /\ rc.frames = <<1>>
    /\ Top.serial = 1

=============================================================================
